---- MODULE Spec2Model ----
(***************************************************************************)
(* Bowling lane controller: the Canadian 5-pin scoring engine (QuickGame), *)
(* and the pin-sensing side of the machine controller that feeds it.       *)
(* Indices keep the source's conventions: frame indices and                *)
(* currentBowlerIndex are 0-based; `bowlers` and `balls` are sequences, so *)
(* bowlers[i] of the source is bowlers[i + 1] here and balls[0] is         *)
(* balls[1].                                                               *)
(***************************************************************************)
EXTENDS Integers, Sequences, FiniteSets, TLC

VARIABLES
    bowlers,             \* QVector<Bowler> QuickGame::bowlers
    currentBowlerIndex,  \* int QuickGame::currentBowlerIndex
    gameActive,          \* bool QuickGame::gameActive
    isHeld,              \* bool QuickGame::isHeld
    gameLimit,           \* int QuickGame::gameLimit
    gamesPlayed,         \* int QuickGame::gamesPlayed
    emitted,             \* signals raised by the handler that ran last, in order
    thrown,              \* balls processBall has recorded since startGame
    currentState,        \* MachineInterface::currentState
    machineGameActive,   \* bool MachineInterface::gameActive
    detectionActive,     \* bool MachineInterface::detectionActive
    detectionSuspended,  \* bool MachineInterface::detectionSuspended
    ballDetectionCounter,\* int MachineInterface::ballDetectionCounter
    lastDetectionTime,   \* qint64 MachineInterface::lastDetectionTime
    currentPinStates,    \* QVector<int> MachineInterface::currentPinStates
    targetPinStates,     \* QVector<int> MachineInterface::targetPinStates
    machineInOperation,  \* bool MachineInterface::machineInOperation
    resetStartTime,      \* qint64 MachineInterface::resetStartTime
    machineTimerActive,  \* machineTimer is running
    machineOp,           \* the MachineInterface handler that ran last
    machineEmitted,      \* signals and actuations of that handler, in order
    detectionHistory,    \* accepted detections: time of the last one, gap to
                         \* the one before, startBallDetection calls between
    now,                 \* QDateTime::currentMSecsSinceEpoch()
    lastSweep,           \* the readings of the channels at the last
                         \* readPinSensors call
    m_connectionState,   \* ClientConnectionState LaneClient::m_connectionState
    m_registered,        \* bool LaneClient::m_registered
    m_reconnectAttempts, \* int LaneClient::m_reconnectAttempts
    socketState,         \* m_socket->state()
    reconnectTimer,      \* m_reconnectTimer: [active, interval]
    heartbeatActive,     \* m_heartbeatTimer is running
    clientEmitted,       \* signals and messages of the LaneClient handler that
                         \* ran last, in order
    tries,               \* delays waited before the reconnect tries made since
                         \* the last successful connection
    forwarded,           \* gameCommandReceived and serverMessageReceived
                         \* signals of that handler, with their arguments
    discoveryBound,      \* m_discoverySocket is bound
    m_server,            \* m_serverHost and m_serverPort
    ackedOnConnection,   \* a registration_response with status success has
                         \* arrived since the socket last reported connected
    readLines,           \* the lines onReadyRead went through, if it is the
                         \* handler that ran last
    announcedState       \* the argument of the last connectionStateChanged

gameVars == <<bowlers, currentBowlerIndex, gameActive, isHeld, gameLimit,
              gamesPlayed, emitted, thrown>>

machineVars == <<currentState, machineGameActive, detectionActive,
                 detectionSuspended, ballDetectionCounter, lastDetectionTime,
                 currentPinStates, targetPinStates, machineInOperation,
                 resetStartTime, machineTimerActive, machineOp,
                 machineEmitted, detectionHistory, now, lastSweep>>

clientVars == <<m_connectionState, m_registered, m_reconnectAttempts,
                socketState, reconnectTimer, heartbeatActive, clientEmitted,
                tries, forwarded, discoveryBound, m_server, ackedOnConnection,
                readLines, announcedState>>

vars == <<gameVars, machineVars, clientVars>>

-----------------------------------------------------------------------------
(* Bounds of the model *)

\* balls processBall records per game, for each specification
MaxBalls == 1
MaxScoreBalls == 3
MaxTurnBalls == 5
MaxProbeBalls == 2
MaxLaneBalls == 2
\* clock advances the lane specification explores
MaxTicks == 3
\* cap on QuickGame::gamesPlayed
MaxGamesPlayed == 2
\* reconnect tries the session and outage specifications follow
MaxSessionTries == 2
MaxLines == 2
MaxReadTries == 1
MaxStopTries == 2
MaxPerfectBalls == 12
MaxRoundRobinBalls == 1
MaxSnapshotBalls == 1
MaxOutageTries == 6
\* reconnect tries recorded since the last successful connection
MaxTries == 4
\* cap on LaneClient::m_reconnectAttempts
MaxAttempts == 12
\* clock advances the machine specifications explore
MaxCycleTicks == 2

-----------------------------------------------------------------------------
(* Ball *)

PIN_VALUES == <<2, 3, 5, 3, 2>>

\* the loop stopping one pin early
RECURSIVE calcLoopFourPins(_, _, _)
calcLoopFourPins(pins, i, total) ==
    IF i > 4 THEN total
    ELSE calcLoopFourPins(pins, i + 1,
                          IF pins[i] = 1 THEN total + PIN_VALUES[i] ELSE total)

RECURSIVE calcLoop(_, _, _)
calcLoop(pins, i, total) ==
    IF i > 5 THEN total
    ELSE calcLoop(pins, i + 1,
                  IF pins[i] = 1 THEN total + PIN_VALUES[i] ELSE total)

calculateValue(pins) ==
    IF Len(pins) # 5 THEN 0 ELSE calcLoop(pins, 1, 0)

\* Ball::Ball(pins, value)
Ball(pins, value) ==
    [pins  |-> pins,
     value |-> IF value = 0 /\ pins # <<>> THEN calculateValue(pins) ELSE value]

\* Ball() with the default arguments: QVector<int>(5, 0), value 0
DefaultBall == Ball(<<0, 0, 0, 0, 0>>, 0)

-----------------------------------------------------------------------------
(* Frame *)

NewFrame == [balls |-> <<>>, totalScore |-> 0, isComplete |-> FALSE,
             frameScore |-> 0]

RECURSIVE sumValues(_, _)
sumValues(balls, i) ==
    IF i > Len(balls) THEN 0 ELSE balls[i].value + sumValues(balls, i + 1)

getFrameTotal(frame) == sumValues(frame.balls, 1)

isStrike(frame) == frame.balls # <<>> /\ frame.balls[1].value = 15

isSpare(frame) ==
    IF Len(frame.balls) < 2 \/ isStrike(frame) THEN FALSE
    ELSE sumValues(frame.balls, 1) = 15

\* an open frame closing on its second ball in every frame
shouldCompleteAtTwoBalls(frame, frameNumber) ==
    IF frameNumber < 9
    THEN isStrike(frame) \/ Len(frame.balls) >= 2
    ELSE \/ Len(frame.balls) >= 3
         \/ /\ Len(frame.balls) = 2
            /\ frame.balls[1].value < 15
            /\ frame.balls[1].value + frame.balls[2].value < 15

shouldComplete(frame, frameNumber) ==
    IF frameNumber < 9
    THEN \/ isStrike(frame)
         \/ /\ Len(frame.balls) >= 2
            /\ (isSpare(frame) \/ Len(frame.balls) >= 3)
    ELSE \/ Len(frame.balls) >= 3
         \/ /\ Len(frame.balls) = 2
            /\ frame.balls[1].value < 15
            /\ frame.balls[1].value + frame.balls[2].value < 15

-----------------------------------------------------------------------------
(* Bowler *)

PERFECT_SCORE == 450

\* frames.resize(10): ten default frames, indexed 0..9
TenFrames ==
    (0 :> NewFrame) @@ (1 :> NewFrame) @@ (2 :> NewFrame) @@ (3 :> NewFrame)
    @@ (4 :> NewFrame) @@ (5 :> NewFrame) @@ (6 :> NewFrame)
    @@ (7 :> NewFrame) @@ (8 :> NewFrame) @@ (9 :> NewFrame)

NewBowler(name) ==
    [name |-> name, frames |-> TenFrames, currentFrame |-> 0, totalScore |-> 0]

\* the bowler counted as done on entering the last frame
isCompleteOnLastFrame(bowler) == bowler.currentFrame >= 9

\* Bowler::isComplete
isComplete(bowler) ==
    \/ bowler.currentFrame >= 10
    \/ (bowler.currentFrame = 9 /\ bowler.frames[9].isComplete)

\* Bowler::getCurrentFrame (non-const): clamps currentFrame into the vector
clampCurrentFrame(bowler) ==
    IF bowler.currentFrame >= 10 THEN [bowler EXCEPT !.currentFrame = 9]
    ELSE bowler

nextFrame(bowler) ==
    IF bowler.currentFrame < 9
    THEN [bowler EXCEPT !.currentFrame = bowler.currentFrame + 1]
    ELSE bowler

-----------------------------------------------------------------------------
(* Scoring *)

RECURSIVE strikeLoop(_, _, _, _)
strikeLoop(frames, nextFrameIdx, ballsNeeded, bonus) ==
    IF nextFrameIdx >= 10 \/ ballsNeeded <= 0 THEN bonus
    ELSE LET balls == frames[nextFrameIdx].balls
             take  == IF Len(balls) < ballsNeeded THEN Len(balls)
                      ELSE ballsNeeded
         IN  strikeLoop(frames, nextFrameIdx + 1, ballsNeeded - take,
                        bonus + sumValues(SubSeq(balls, 1, take), 1))

getStrikeBonus(frameIndex, frames) ==
    IF frameIndex >= 8 THEN 0
    ELSE strikeLoop(frames, frameIndex + 1, 2, 0)

\* the spare bonus cut off where the strike bonus is
getSpareBonusUpToFrame8(frameIndex, frames) ==
    IF frameIndex >= 8 THEN 0
    ELSE IF frameIndex + 1 < 10 /\ frames[frameIndex + 1].balls # <<>>
         THEN frames[frameIndex + 1].balls[1].value
         ELSE 0

getSpareBonus(frameIndex, frames) ==
    IF frameIndex >= 9 THEN 0
    ELSE IF frameIndex + 1 < 10 /\ frames[frameIndex + 1].balls # <<>>
         THEN frames[frameIndex + 1].balls[1].value
         ELSE 0

\* frame 10 scored like frames 1-9
calculateFrameScoreTenthLikeOthers(frame, frameIndex, allFrames) ==
    IF isStrike(frame) THEN 15 + getStrikeBonus(frameIndex, allFrames)
    ELSE IF isSpare(frame) THEN 15 + getSpareBonus(frameIndex, allFrames)
    ELSE getFrameTotal(frame)

calculateFrameScore(frame, frameIndex, allFrames) ==
    IF frameIndex < 9
    THEN IF isStrike(frame) THEN 15 + getStrikeBonus(frameIndex, allFrames)
         ELSE IF isSpare(frame) THEN 15 + getSpareBonus(frameIndex, allFrames)
         ELSE getFrameTotal(frame)
    ELSE getFrameTotal(frame)

RECURSIVE scoreLoop(_, _, _)
scoreLoop(bowler, frameIdx, runningTotal) ==
    IF frameIdx >= 10 THEN [bowler EXCEPT !.totalScore = runningTotal]
    ELSE LET frame == bowler.frames[frameIdx]
         IN  IF frame.balls = <<>>
             THEN scoreLoop([bowler EXCEPT
                                !.frames[frameIdx].frameScore = 0,
                                !.frames[frameIdx].totalScore = runningTotal],
                            frameIdx + 1, runningTotal)
             ELSE LET frameScore ==
                          calculateFrameScore(frame, frameIdx, bowler.frames)
                  IN  scoreLoop([bowler EXCEPT
                                    !.frames[frameIdx].frameScore = frameScore,
                                    !.frames[frameIdx].totalScore =
                                        runningTotal + frameScore],
                                frameIdx + 1, runningTotal + frameScore)

calculateBowlerScore(bowler) == scoreLoop(bowler, 0, 0)

RECURSIVE updateLoop(_, _)
updateLoop(bs, i) ==
    IF i > Len(bs) THEN bs
    ELSE updateLoop([bs EXCEPT ![i] = calculateBowlerScore(bs[i])], i + 1)

updateScoring(bs) == updateLoop(bs, 1)

isGameComplete(bs) ==
    IF bs = <<>> THEN FALSE
    ELSE \A i \in 1..Len(bs) : isComplete(bs[i])

-----------------------------------------------------------------------------
(* QuickGame: the handlers, as functions of the game record *)

Sig(name, a, b) == [sig |-> name, a |-> a, b |-> b]

Game == [bowlers |-> bowlers, currentBowlerIndex |-> currentBowlerIndex,
         gameActive |-> gameActive, gamesPlayed |-> gamesPlayed,
         emitted |-> <<>>]

Emit(g, s) == [g EXCEPT !.emitted = Append(g.emitted, s)]

\* the frame Bowler::getCurrentFrame() returns
curFrame(bowler) == bowler.frames[clampCurrentFrame(bowler).currentFrame]

endGame(g) ==
    Emit([g EXCEPT !.gameActive = FALSE], Sig("gameEnded", 0, 0))

checkGameCompletion(g) ==
    IF isGameComplete(g.bowlers)
    THEN LET g1 == [g EXCEPT !.gamesPlayed = g.gamesPlayed + 1]
         IN  IF gameLimit > 0 /\ g1.gamesPlayed >= gameLimit
             THEN endGame(g1)
             ELSE Emit(g1, Sig("gameCompleted", 0, 0))
    ELSE g

\* the turn passes on but the bowler stays in the completed frame
nextPlayerWithoutFrameAdvance(g) ==
    LET i  == g.currentBowlerIndex + 1
        b0 == clampCurrentFrame(g.bowlers[i])
        g1 == [g EXCEPT !.bowlers[i] = b0,
                        !.currentBowlerIndex =
                            (g.currentBowlerIndex + 1) % Len(g.bowlers)]
        g2 == checkGameCompletion(g1)
    IN  Emit(g2, Sig("currentPlayerChanged", g2.currentBowlerIndex, 0))

nextPlayer(g) ==
    LET i  == g.currentBowlerIndex + 1
        b0 == clampCurrentFrame(g.bowlers[i])
        b1 == IF b0.frames[b0.currentFrame].isComplete /\ b0.currentFrame < 9
              THEN nextFrame(b0) ELSE b0
        g1 == [g EXCEPT !.bowlers[i] = b1,
                        !.currentBowlerIndex =
                            (g.currentBowlerIndex + 1) % Len(g.bowlers)]
        g2 == checkGameCompletion(g1)
    IN  Emit(g2, Sig("currentPlayerChanged", g2.currentBowlerIndex, 0))

\* the frame's turn ends but its isComplete flag is left alone
checkFrameCompletionWithoutFlag(g) ==
    LET i  == g.currentBowlerIndex + 1
        b0 == clampCurrentFrame(g.bowlers[i])
        cf == b0.currentFrame
    IN  IF shouldComplete(b0.frames[cf], cf)
        THEN nextPlayer(Emit([g EXCEPT !.bowlers[i] = b0],
                             Sig("frameCompleted", g.currentBowlerIndex, cf)))
        ELSE [g EXCEPT !.bowlers[i] = b0]

checkFrameCompletion(g) ==
    LET i  == g.currentBowlerIndex + 1
        b0 == clampCurrentFrame(g.bowlers[i])
        cf == b0.currentFrame
    IN  IF shouldComplete(b0.frames[cf], cf)
        THEN nextPlayer(
                 Emit([g EXCEPT !.bowlers[i] =
                                    [b0 EXCEPT !.frames[cf].isComplete = TRUE]],
                      Sig("frameCompleted", g.currentBowlerIndex, cf)))
        ELSE [g EXCEPT !.bowlers[i] = b0]

\* the body of processBall after its guard
processBallBody(g, pins) ==
    LET i       == g.currentBowlerIndex + 1
        b0      == clampCurrentFrame(g.bowlers[i])
        cf      == b0.currentFrame
        newBall == Ball(pins, 0)
        frame   == [b0.frames[cf] EXCEPT !.balls = Append(@, newBall)]
        g1      == [g EXCEPT !.bowlers[i] = [b0 EXCEPT !.frames[cf] = frame]]
        g2      == IF Len(frame.balls) = 1 /\ newBall.value = 15
                   THEN Emit(g1, Sig("specialEffect:strike", cf + 1, 0))
                   ELSE IF Len(frame.balls) >= 2 /\ ~isStrike(frame)
                           /\ isSpare(frame)
                        THEN Emit(g1, Sig("specialEffect:spare", cf + 1, 0))
                        ELSE g1
        g3      == Emit(g2, Sig("ballProcessed", newBall.value,
                                Len(frame.balls)))
        g4      == [g3 EXCEPT !.bowlers = updateScoring(g3.bowlers)]
    IN  Emit(checkFrameCompletion(g4), Sig("gameUpdated", 0, 0))

\* the frame always filled up to 3 balls
fillMissesToThree(frame, frameNumber) ==
    [frame EXCEPT !.balls =
        @ \o [k \in 1..(3 - Len(frame.balls)) |-> DefaultBall]]

RECURSIVE fillMisses(_, _)
fillMisses(frame, frameNumber) ==
    IF Len(frame.balls) < 3 /\ ~shouldComplete(frame, frameNumber)
    THEN fillMisses([frame EXCEPT !.balls = Append(@, DefaultBall)],
                    frameNumber)
    ELSE frame

\* the body of skipPlayer after its guard
skipPlayerBody(g) ==
    LET i     == g.currentBowlerIndex + 1
        b0    == clampCurrentFrame(g.bowlers[i])
        cf    == b0.currentFrame
        frame == [fillMisses(b0.frames[cf], cf) EXCEPT !.isComplete = TRUE]
        g1    == [g EXCEPT !.bowlers[i] = [b0 EXCEPT !.frames[cf] = frame]]
        g2    == [g1 EXCEPT !.bowlers = updateScoring(g1.bowlers)]
    IN  Emit(nextPlayer(g2), Sig("gameUpdated", 0, 0))

\* write a game record back to the object's members
Commit(g) ==
    /\ bowlers' = g.bowlers
    /\ currentBowlerIndex' = g.currentBowlerIndex
    /\ gameActive' = g.gameActive
    /\ gamesPlayed' = g.gamesPlayed
    /\ emitted' = g.emitted

-----------------------------------------------------------------------------
(* QuickGame: the operations *)

\* the non-empty names only, without the default players
rosterOfWithoutDefault(players) == SelectSeq(players, LAMBDA n : n # "")

\* the non-empty names of gameData["players"], or the two default players
rosterOf(players) ==
    LET names == SelectSeq(players, LAMBDA n : n # "")
    IN  IF names = <<>> THEN <<"Player 1", "Player 2">> ELSE names

RECURSIVE appendBowlers(_, _, _)
appendBowlers(bs, names, i) ==
    IF i > Len(names) THEN bs
    ELSE appendBowlers(Append(bs, NewBowler(names[i])), names, i + 1)

StartGame(players, limit) ==
    /\ bowlers' = appendBowlers(<<>>, rosterOf(players), 1)
    /\ gameLimit' = limit
    /\ gamesPlayed' = 0
    /\ currentBowlerIndex' = 0
    /\ gameActive' = TRUE
    /\ isHeld' = FALSE
    /\ emitted' = <<Sig("gameStarted", 0, 0),
                    Sig("currentPlayerChanged", 0, 0),
                    Sig("gameUpdated", 0, 0)>>
    /\ thrown' = 0

\* processBall with a guard that does not look at isHeld
ProcessBallIgnoringHold(pins) ==
    /\ IF ~gameActive \/ bowlers = <<>>
       THEN /\ emitted' = <<>>
            /\ UNCHANGED <<bowlers, currentBowlerIndex, gameActive,
                           gamesPlayed, thrown>>
       ELSE /\ Commit(processBallBody(Game, pins))
            /\ thrown' = thrown + 1
    /\ UNCHANGED <<isHeld, gameLimit>>

ProcessBall(pins) ==
    /\ IF ~gameActive \/ isHeld \/ bowlers = <<>>
       THEN /\ emitted' = <<>>
            /\ UNCHANGED <<bowlers, currentBowlerIndex, gameActive,
                           gamesPlayed, thrown>>
       ELSE /\ Commit(processBallBody(Game, pins))
            /\ thrown' = thrown + 1
    /\ UNCHANGED <<isHeld, gameLimit>>

SkipPlayer ==
    /\ IF ~gameActive \/ bowlers = <<>>
       THEN /\ emitted' = <<>>
            /\ UNCHANGED <<bowlers, currentBowlerIndex, gameActive,
                           gamesPlayed>>
       ELSE Commit(skipPlayerBody(Game))
    /\ UNCHANGED <<isHeld, gameLimit, thrown>>

HoldGame ==
    /\ isHeld' = ~isHeld
    /\ emitted' = <<Sig("gameHeld", IF isHeld THEN 0 ELSE 1, 0)>>
    /\ UNCHANGED <<bowlers, currentBowlerIndex, gameActive, gameLimit,
                   gamesPlayed, thrown>>

\* Bowler::toJson: the JSON object, arrays as sequences
ballToJson(ball) == [value |-> ball.value, pins |-> ball.pins]

frameToJson(frame) ==
    [total_score |-> frame.totalScore, frame_score |-> frame.frameScore,
     is_complete |-> frame.isComplete,
     balls |-> [k \in 1..Len(frame.balls) |-> ballToJson(frame.balls[k])]]

toJson(bowler) ==
    [name |-> bowler.name, current_frame |-> bowler.currentFrame,
     total_score |-> bowler.totalScore,
     frames |-> [i \in 1..10 |-> frameToJson(bowler.frames[i - 1])]]

\* one frame object of Bowler::fromJson: the balls are appended to the
\* empty list of a default frame, each built by Ball(pins, value)
frameFromJson(frameObj) ==
    [NewFrame EXCEPT
        !.totalScore = frameObj.total_score,
        !.frameScore = frameObj.frame_score,
        !.isComplete = frameObj.is_complete,
        !.balls = [k \in 1..Len(frameObj.balls) |->
                      Ball(frameObj.balls[k].pins, frameObj.balls[k].value)]]

\* Bowler::fromJson dropping the is_complete member of the frames
fromJsonWithoutIsComplete(json) ==
    [name |-> json.name, currentFrame |-> json.current_frame,
     totalScore |-> json.total_score,
     frames |-> [i \in 0..9 |->
                    IF i < Len(json.frames)
                    THEN [frameFromJson(json.frames[i + 1])
                             EXCEPT !.isComplete = FALSE]
                    ELSE NewFrame]]

\* Bowler::fromJson: frames.resize(10), then the first ten frame objects
fromJson(json) ==
    [name |-> json.name, currentFrame |-> json.current_frame,
     totalScore |-> json.total_score,
     frames |-> [i \in 0..9 |->
                    IF i < Len(json.frames)
                    THEN frameFromJson(json.frames[i + 1])
                    ELSE NewFrame]]

\* QuickGame::getGameState
getGameState ==
    [game_active |-> gameActive, is_held |-> isHeld,
     current_bowler_index |-> currentBowlerIndex,
     game_limit |-> gameLimit, games_played |-> gamesPlayed,
     bowlers |-> [k \in 1..Len(bowlers) |-> toJson(bowlers[k])]]

\* QuickGame::loadGameState
LoadGameState(state) ==
    /\ gameActive' = state.game_active
    /\ isHeld' = state.is_held
    /\ currentBowlerIndex' = state.current_bowler_index
    /\ gameLimit' = state.game_limit
    /\ gamesPlayed' = state.games_played
    /\ bowlers' = [k \in 1..Len(state.bowlers) |-> fromJson(state.bowlers[k])]
    /\ emitted' = <<Sig("gameUpdated", 0, 0)>>
    /\ UNCHANGED thrown

\* the game restored from its own snapshot
RestoreSnapshot == LoadGameState(getGameState)

EndGame ==
    /\ Commit(endGame(Game))
    /\ UNCHANGED <<isHeld, gameLimit, thrown>>

-----------------------------------------------------------------------------
(* MachineInterface: ball detection, the pin-sensor sweep and the machine  *)
(* cycle                                                                    *)

detectionThreshold == 10
debounceTimeMs == 500
\* readPinSensors: VOLTAGE_THRESHOLD 4.0 V, in tenths of a volt
VOLTAGE_THRESHOLD == 40
MAX_RETRY_ATTEMPTS == 5
\* machineCycleTimeSeconds (8.5) * 1000
machineCycleTimeMs == 8500

RECURSIVE readSensorSixAttempts(_, _)
\* readSensor allowing a sixth attempt
readSensorSixAttempts(reads, attempts) ==
    IF attempts >= MAX_RETRY_ATTEMPTS + 1 \/ attempts >= Len(reads) THEN 1
    ELSE LET voltage == reads[attempts + 1]
         IN  IF voltage >= 0
             THEN IF voltage >= VOLTAGE_THRESHOLD THEN 0 ELSE 1
             ELSE readSensorSixAttempts(reads, attempts + 1)

\* One sensor of the sweep.  reads[k] is what the k-th readADS1115Channel
\* call on the channel gives: a voltage in tenths of a volt, or -1 for an
\* invalid reading or an exception.  The result is the pin state, 0 for
\* "pin down" and 1 for "pin up" (also the default when every attempt fails).
\* A list that ends before the fifth failed reading is a channel whose
\* loop the 3 s budget of the sweep (maxReadTime) ended.
RECURSIVE readSensor(_, _)
readSensor(reads, attempts) ==
    IF attempts >= MAX_RETRY_ATTEMPTS \/ attempts >= Len(reads) THEN 1
    ELSE LET voltage == reads[attempts + 1]
         IN  IF voltage >= 0
             THEN IF voltage >= VOLTAGE_THRESHOLD THEN 0 ELSE 1
             ELSE readSensor(reads, attempts + 1)

\* the value of the counter attempts when the while loop of one sensor ends:
\* the number of readADS1115Channel calls made on the channel
RECURSIVE sensorAttempts(_, _)
sensorAttempts(reads, attempts) ==
    IF attempts >= MAX_RETRY_ATTEMPTS \/ attempts >= Len(reads) THEN attempts
    ELSE IF reads[attempts + 1] >= 0 THEN attempts + 1
    ELSE sensorAttempts(reads, attempts + 1)

RECURSIVE sweepLoop(_, _, _)
sweepLoop(pinStates, sweep, k) ==
    IF k > 5 THEN pinStates
    ELSE sweepLoop([pinStates EXCEPT ![k] = readSensor(sweep[k], 0)],
                   sweep, k + 1)

\* sensor k is wired to pin index k: lTwo, lThree, cFive, rThree, rTwo
readPinSensors(sweep) == sweepLoop(<<1, 1, 1, 1, 1>>, sweep, 1)

\* the handler op ran and raised sigs
Ran(op, sigs) ==
    machineOp' = op /\ machineEmitted' = sigs /\ UNCHANGED lastSweep

\* initialize(): hardwareOk is whether wiringPiSetupGpio and setupGPIO succeed
Initialize(hardwareOk) ==
    /\ IF hardwareOk
       THEN /\ machineTimerActive' = TRUE
            /\ Ran("initialize", <<"machineReady">>)
       ELSE /\ UNCHANGED machineTimerActive
            /\ Ran("initialize", <<"machineError">>)
    /\ UNCHANGED <<currentState, machineGameActive, detectionActive,
                   detectionSuspended, ballDetectionCounter, lastDetectionTime,
                   currentPinStates, targetPinStates, machineInOperation,
                   resetStartTime, detectionHistory, now>>

StartBallDetection ==
    /\ detectionActive' = TRUE
    /\ detectionSuspended' = FALSE
    /\ ballDetectionCounter' = 0
    /\ lastDetectionTime' = 0
    /\ detectionHistory' = [detectionHistory EXCEPT !.restarted = TRUE]
    /\ Ran("startBallDetection", <<>>)
    /\ UNCHANGED <<currentState, machineGameActive, currentPinStates,
                   targetPinStates, machineInOperation, resetStartTime,
                   machineTimerActive, now>>

StopBallDetection ==
    /\ detectionActive' = FALSE
    /\ Ran("stopBallDetection", <<>>)
    /\ UNCHANGED <<currentState, machineGameActive, detectionSuspended,
                   ballDetectionCounter, lastDetectionTime, currentPinStates,
                   targetPinStates, machineInOperation, resetStartTime,
                   machineTimerActive, detectionHistory, now>>

SetDetectionSuspended(suspended) ==
    /\ detectionSuspended' = suspended
    /\ Ran("setDetectionSuspended", <<>>)
    /\ UNCHANGED <<currentState, machineGameActive, detectionActive,
                   ballDetectionCounter, lastDetectionTime, currentPinStates,
                   targetPinStates, machineInOperation, resetStartTime,
                   machineTimerActive, detectionHistory, now>>

SetGameActive(active) ==
    /\ machineGameActive' = active
    /\ currentState' = IF ~active THEN "IDLE" ELSE currentState
    /\ Ran("setGameActive", <<>>)
    /\ UNCHANGED <<detectionActive, detectionSuspended, ballDetectionCounter,
                   lastDetectionTime, currentPinStates, targetPinStates,
                   machineInOperation, resetStartTime, machineTimerActive,
                   detectionHistory, now>>

\* resetPins(immediate); pulseOk is whether executePinReset's GPIO writes
\* go through
ResetPins(immediate, pulseOk) ==
    /\ targetPinStates' = <<1, 1, 1, 1, 1>>
    /\ IF immediate
       THEN /\ currentPinStates' = <<1, 1, 1, 1, 1>>
            /\ currentState' = "IDLE"
            /\ Ran("resetPins",
                   IF pulseOk THEN <<"executePinReset", "pinStatesChanged">>
                   ELSE <<"executePinReset", "machineError",
                          "pinStatesChanged">>)
            /\ UNCHANGED <<machineInOperation, resetStartTime>>
       ELSE /\ currentState' = "RESETTING"
            /\ machineInOperation' = TRUE
            /\ resetStartTime' = now
            /\ Ran("resetPins", <<>>)
            /\ UNCHANGED currentPinStates
    /\ UNCHANGED <<machineGameActive, detectionActive, detectionSuspended,
                   ballDetectionCounter, lastDetectionTime,
                   machineTimerActive, detectionHistory, now>>

SetPinConfiguration(pinStates) ==
    /\ IF Len(pinStates) # 5
       THEN /\ Ran("setPinConfiguration", <<"machineError">>)
            /\ UNCHANGED <<currentState, targetPinStates, machineInOperation,
                           resetStartTime>>
       ELSE /\ currentState' = "SETTING_PINS"
            /\ targetPinStates' = pinStates
            /\ machineInOperation' = TRUE
            /\ resetStartTime' = now
            /\ Ran("setPinConfiguration", <<>>)
    /\ UNCHANGED <<machineGameActive, detectionActive, detectionSuspended,
                   ballDetectionCounter, lastDetectionTime, currentPinStates,
                   machineTimerActive, detectionHistory, now>>

\* One firing of the 50 ms machine timer; pulseOk is whether
\* executePinConfiguration's GPIO writes go through.
OnMachineTimer(pulseOk) ==
    /\ machineTimerActive
    /\ IF machineInOperation /\ now - resetStartTime >= machineCycleTimeMs
       THEN /\ currentPinStates' = targetPinStates
            /\ machineInOperation' = FALSE
            /\ currentState' = "IDLE"
            /\ Ran("onMachineTimer",
                   IF pulseOk
                   THEN <<"executePinConfiguration", "pinStatesChanged">>
                   ELSE <<"executePinConfiguration", "machineError",
                          "pinStatesChanged">>)
       ELSE /\ Ran("onMachineTimer", <<>>)
            /\ UNCHANGED <<currentPinStates, machineInOperation, currentState>>
    /\ UNCHANGED <<machineGameActive, detectionActive, detectionSuspended,
                   ballDetectionCounter, lastDetectionTime, targetPinStates,
                   resetStartTime, machineTimerActive, detectionHistory, now>>

\* the guard without its test of the machine state
pollRejectedIgnoringState ==
    ~detectionActive \/ detectionSuspended \/ ~machineGameActive

\* the guard of onBallDetectionTimer and checkBallSensor
pollRejected ==
    \/ ~detectionActive \/ detectionSuspended
    \/ ~machineGameActive \/ currentState # "IDLE"

\* the debounce test skipped
debounceNotTested(currentTime) == TRUE

\* currentTime - lastDetectionTime >= debounceTimeMs
debounceElapsed(currentTime) ==
    currentTime - lastDetectionTime >= debounceTimeMs

\* the bookkeeping of an accepted detection at time t
accept(h, t) ==
    [last |-> t, restarted |-> FALSE,
     gap |-> IF h.last < 0 THEN -1 ELSE t - h.last,
     gapRestarted |-> h.restarted]

\* One firing of the 1 ms detection timer: onBallDetectionTimer and
\* checkBallSensor (hardware build).  sample is digitalRead(gp7); sweep is
\* what the pin sensors give if they are read.  ballDetected is connected to
\* QuickGame::onBallDetected, which hands the vector to processBall.
CheckBallSensor(sample, sweep) ==
    /\ machineOp' = "checkBallSensor"
    /\ lastSweep' = IF /\ ~pollRejected
                       /\ sample = "HIGH"
                       /\ ballDetectionCounter + 1 >= detectionThreshold
                       /\ debounceElapsed(now)
                    THEN sweep ELSE lastSweep
    /\ UNCHANGED <<currentState, machineGameActive, detectionActive,
                   detectionSuspended, targetPinStates, machineInOperation,
                   resetStartTime, machineTimerActive, now>>
    /\ IF pollRejected
       THEN /\ machineEmitted' = <<>>
            /\ UNCHANGED <<ballDetectionCounter, lastDetectionTime,
                           currentPinStates, detectionHistory, gameVars>>
       ELSE IF sample = "HIGH"
            THEN IF ballDetectionCounter + 1 >= detectionThreshold
                 THEN /\ ballDetectionCounter' = 0
                      /\ IF debounceElapsed(now)
                         THEN /\ lastDetectionTime' = now
                              /\ currentPinStates' = readPinSensors(sweep)
                              /\ machineEmitted' =
                                     <<"ballDetected", "pinStatesChanged">>
                              /\ detectionHistory' =
                                     accept(detectionHistory, now)
                              /\ ProcessBall(readPinSensors(sweep))
                         ELSE /\ machineEmitted' = <<>>
                              /\ UNCHANGED <<lastDetectionTime,
                                             currentPinStates,
                                             detectionHistory, gameVars>>
                 ELSE /\ ballDetectionCounter' = ballDetectionCounter + 1
                      /\ machineEmitted' = <<>>
                      /\ UNCHANGED <<lastDetectionTime, currentPinStates,
                                     detectionHistory, gameVars>>
            ELSE /\ ballDetectionCounter' = 0
                 /\ machineEmitted' = <<>>
                 /\ UNCHANGED <<lastDetectionTime, currentPinStates,
                                detectionHistory, gameVars>>

\* the wall clock moves on between two timer firings
Tick(ms) ==
    /\ now' = now + ms
    /\ UNCHANGED <<gameVars, clientVars, currentState, machineGameActive,
                   detectionActive, detectionSuspended, ballDetectionCounter,
                   lastDetectionTime, currentPinStates, targetPinStates,
                   machineInOperation, resetStartTime, machineTimerActive,
                   machineOp, machineEmitted, detectionHistory, lastSweep>>

-----------------------------------------------------------------------------
(* LaneClient: connection, registration and reconnection *)

RECONNECT_INTERVAL == 5000
MAX_RECONNECT_ATTEMPTS == 10

Min(a, b) == IF a < b THEN a ELSE b

\* std::min(1000 * (1 << m_reconnectAttempts), 30000); the product stays
\* inside int while m_reconnectAttempts <= 21, which MaxAttempts keeps
backoffDelay(attempts) == Min(1000 * 2 ^ attempts, 30000)

Client == [state |-> m_connectionState, registered |-> m_registered,
           attempts |-> m_reconnectAttempts, socket |-> socketState,
           timer |-> reconnectTimer, heartbeat |-> heartbeatActive,
           discovery |-> discoveryBound, server |-> m_server,
           emitted |-> <<>>, forwarded |-> <<>>,
           announced |-> announcedState]

clientEmit(c, s) == [c EXCEPT !.emitted = Append(c.emitted, s)]

setConnectionState(c, state) ==
    IF c.state # state
    THEN clientEmit([c EXCEPT !.state = state, !.announced = state],
                    "connectionStateChanged")
    ELSE c

sendMessage(c, type) ==
    IF c.socket # "Connected" THEN c ELSE clientEmit(c, type)

\* onError without starting the reconnect timer
onErrorWithoutRetry(c) ==
    IF c.state = "Connected" \/ c.state = "Connecting"
    THEN [c EXCEPT !.state = "Reconnecting",
                   !.registered = FALSE,
                   !.heartbeat = FALSE,
                   !.attempts = c.attempts + 1]
    ELSE c

onError(c) ==
    IF c.state = "Connected" \/ c.state = "Connecting"
    THEN [c EXCEPT !.state = "Reconnecting",
                   !.registered = FALSE,
                   !.heartbeat = FALSE,
                   !.timer = [active |-> TRUE,
                              interval |-> backoffDelay(c.attempts)],
                   !.attempts = c.attempts + 1]
    ELSE c

\* m_socket->connectToHost on a socket that is already connecting or
\* connected only raises errorOccurred(OperationError)
connectToServer(c) ==
    IF c.state = "Connecting" \/ c.state = "Connected" THEN c
    ELSE LET c1 == [setConnectionState(c, "Connecting")
                       EXCEPT !.registered = FALSE]
             c2 == clientEmit(c1, "connectToHost")
         IN  IF c2.socket = "Unconnected"
             THEN [c2 EXCEPT !.socket = "Connecting"]
             ELSE onError(c2)

\* onConnected raising the connected signal before it registers
onConnectedStepsSignalFirst(c) ==
    LET c1 == setConnectionState(c, "Connected")
        c2 == [c1 EXCEPT !.attempts = 0]
        c3 == clientEmit(c2, "connected")
        c4 == sendMessage(c3, "registration")
    IN  <<c1, c2, c3, c4>>

\* the client after each statement of onConnected
onConnectedSteps(c) ==
    LET c1 == setConnectionState(c, "Connected")
        c2 == [c1 EXCEPT !.attempts = 0]
        c3 == sendMessage(c2, "registration")
        c4 == clientEmit(c3, "connected")
    IN  <<c1, c2, c3, c4>>

onConnected(c) == onConnectedSteps(c)[4]

onDisconnected(c) ==
    LET c1 == [c EXCEPT !.registered = FALSE, !.heartbeat = FALSE]
        c2 == IF c1.state # "Disconnected"
              THEN [setConnectionState(c1, "Reconnecting")
                       EXCEPT !.timer.active = TRUE]
              ELSE c1
    IN  IF c.registered THEN clientEmit(c2, "disconnected") ELSE c2

\* m_discoveryTimer is created stopped and its only start() is commented
\* out, so no discovery retry is ever scheduled
discoveryTimerActive == FALSE

\* bind() fails on a socket that is already bound; a failed
\* joinMulticastGroup is only logged
startServerDiscovery(c) ==
    IF c.discovery THEN c
    ELSE clientEmit([c EXCEPT !.discovery = TRUE], "LANE_DISCOVERY_REQUEST")

attemptReconnection(c) ==
    IF c.attempts >= MAX_RECONNECT_ATTEMPTS
    THEN [startServerDiscovery(c) EXCEPT !.attempts = 0]
    ELSE connectToServer([c EXCEPT !.attempts = c.attempts + 1])

\* one LANE_DISCOVERY_RESPONSE datagram whose JSON object carries host and
\* port; the port is stored in a quint16
onServerDiscoveryResponse(c, host, port) ==
    IF host # "" /\ port > 0
    THEN connectToServer([c EXCEPT !.server = [host |-> host,
                                               port |-> port % 65536],
                                   !.discovery = FALSE])
    ELSE c

handleRegistrationResponse(c, status) ==
    IF status = "success"
    THEN [c EXCEPT !.registered = TRUE, !.heartbeat = TRUE]
    ELSE [setConnectionState(c, "Reconnecting") EXCEPT !.timer.active = TRUE]

\* validateConnection and sendHeartbeat
sendHeartbeat(c) ==
    IF ~c.registered THEN [c EXCEPT !.heartbeat = FALSE]
    ELSE IF c.socket # "Connected" THEN c
    ELSE sendMessage(sendMessage(c, "ping"), "heartbeat")

\* a received JSON object: its type, status and data members
Message(type, status, data) == [type |-> type, status |-> status, data |-> data]

GameCommandTypes == {"quick_game", "league_game", "pre_bowl"}

\* QJsonValue::toObject: the value if it is an object, else an empty object
EmptyObject == "{}"
JsonObjects == {EmptyObject, "{players}"}
toObject(value) == IF value \in JsonObjects THEN value ELSE EmptyObject

\* processMessage with no branch for ping
processMessageWithoutPing(c, message) ==
    IF message.type = "registration_response"
    THEN handleRegistrationResponse(c, message.status)
    ELSE IF message.type = "heartbeat_response" THEN c
    ELSE IF message.type \in GameCommandTypes
    THEN [c EXCEPT !.forwarded =
             Append(@, [signal |-> "gameCommandReceived",
                        type |-> message.type,
                        data |-> toObject(message.data)])]
    ELSE [c EXCEPT !.forwarded =
             Append(@, [signal |-> "serverMessageReceived",
                        message |-> message])]

processMessage(c, message) ==
    IF message.type = "registration_response"
    THEN handleRegistrationResponse(c, message.status)
    ELSE IF message.type = "heartbeat_response" THEN c
    ELSE IF message.type \in GameCommandTypes
    THEN [c EXCEPT !.forwarded =
             Append(@, [signal |-> "gameCommandReceived",
                        type |-> message.type,
                        data |-> toObject(message.data)])]
    ELSE IF message.type = "team_move"
    THEN [c EXCEPT !.forwarded =
             Append(@, [signal |-> "serverMessageReceived",
                        message |-> message])]
    ELSE IF message.type = "ping" THEN sendMessage(c, "pong")
    ELSE [c EXCEPT !.forwarded =
             Append(@, [signal |-> "serverMessageReceived",
                        message |-> message])]

CommitClient(c) ==
    /\ m_connectionState' = c.state
    /\ m_registered' = c.registered
    /\ m_reconnectAttempts' = c.attempts
    /\ socketState' = c.socket
    /\ reconnectTimer' = c.timer
    /\ heartbeatActive' = c.heartbeat
    /\ clientEmitted' = c.emitted
    /\ forwarded' = c.forwarded
    /\ discoveryBound' = c.discovery
    /\ m_server' = c.server
    /\ announcedState' = c.announced

\* start(): the initial connection
Start ==
    /\ CommitClient(connectToServer(Client))
    /\ UNCHANGED <<tries, ackedOnConnection>>
    /\ readLines' = <<>>

\* the connection attempt succeeds: the socket raises connected()
SocketConnected ==
    /\ socketState = "Connecting"
    /\ CommitClient(onConnected([Client EXCEPT !.socket = "Connected"]))
    /\ tries' = <<>>
    /\ ackedOnConnection' = FALSE
    /\ readLines' = <<>>

\* the connection attempt fails: the socket raises errorOccurred
SocketError ==
    /\ socketState = "Connecting"
    /\ CommitClient(onError([Client EXCEPT !.socket = "Unconnected"]))
    /\ UNCHANGED <<tries, ackedOnConnection>>
    /\ readLines' = <<>>

\* the server closes an established connection: the socket raises
\* errorOccurred(RemoteHostClosedError), then disconnected()
RemoteClose ==
    /\ socketState = "Connected"
    /\ CommitClient(onDisconnected(
                        onError([Client EXCEPT !.socket = "Unconnected"])))
    /\ UNCHANGED <<tries, ackedOnConnection>>
    /\ readLines' = <<>>

\* the single-shot m_reconnectTimer fires
ReconnectTimeout ==
    /\ reconnectTimer.active
    /\ CommitClient(attemptReconnection(
                        [Client EXCEPT !.timer.active = FALSE]))
    /\ tries' = IF m_reconnectAttempts >= MAX_RECONNECT_ATTEMPTS THEN tries
                ELSE Append(tries, reconnectTimer.interval)
    /\ UNCHANGED ackedOnConnection
    /\ readLines' = <<>>

\* one line read from the socket: what QJsonDocument::fromJson makes of it
\* ("garbage": a parse error, "array": a document that is no object,
\* "object": the object message)
Line(json, message) == [json |-> json, message |-> message]

NoMessage == Message("", "", "")

\* a line holding a JSON object arrives on the connected socket:
\* onReadyRead and processMessage
ReceiveMessage(message) ==
    /\ socketState = "Connected"
    /\ CommitClient(processMessage(Client, message))
    /\ ackedOnConnection' =
           (ackedOnConnection
               \/ (message.type = "registration_response"
                      /\ message.status = "success"))
    /\ UNCHANGED tries
    /\ readLines' = <<Line("object", message)>>

\* a registration_response line arrives on the connected socket
RegistrationResponse(status) ==
    ReceiveMessage(Message("registration_response", status, ""))

\* m_heartbeatTimer fires
HeartbeatTimeout ==
    /\ heartbeatActive
    /\ CommitClient(sendHeartbeat(Client))
    /\ UNCHANGED <<tries, ackedOnConnection>>
    /\ readLines' = <<>>

RECURSIVE onReadyReadStopAtError(_, _)
RECURSIVE onReadyRead(_, _)

\* onReadyRead stopping at the first line that does not parse
onReadyReadStopAtError(c, lines) ==
    IF lines = <<>> THEN c
    ELSE IF Head(lines).json = "garbage" THEN c
    ELSE IF Head(lines).json = "object"
    THEN onReadyReadStopAtError(processMessage(c, Head(lines).message),
                                Tail(lines))
    ELSE onReadyReadStopAtError(c, Tail(lines))

\* the loop over the complete lines that are buffered
onReadyRead(c, lines) ==
    IF lines = <<>> THEN c
    ELSE IF Head(lines).json = "garbage" THEN onReadyRead(c, Tail(lines))
    ELSE IF Head(lines).json = "object"
    THEN onReadyRead(processMessage(c, Head(lines).message), Tail(lines))
    ELSE onReadyRead(c, Tail(lines))

\* the connected socket raises readyRead with these lines buffered
ReadyRead(lines) ==
    /\ socketState = "Connected"
    /\ CommitClient(onReadyRead(Client, lines))
    /\ ackedOnConnection' =
           (ackedOnConnection
               \/ \E k \in 1..Len(lines) :
                      /\ lines[k].json = "object"
                      /\ lines[k].message.type = "registration_response"
                      /\ lines[k].message.status = "success")
    /\ UNCHANGED tries
    /\ readLines' = lines

\* a discovery response datagram arrives on the bound discovery socket
DiscoveryResponse(host, port) ==
    /\ discoveryBound
    /\ CommitClient(onServerDiscoveryResponse(Client, host, port))
    /\ UNCHANGED <<tries, ackedOnConnection>>
    /\ readLines' = <<>>

-----------------------------------------------------------------------------
(* Inputs: pin vectors handed to processBall (1 marks a knocked-down pin   *)
(* for Ball::calculateValue)                                               *)

Strike     == <<1, 1, 1, 1, 1>>
Five       == <<0, 0, 1, 0, 0>>
Ten        == <<1, 1, 1, 0, 0>>
Four       == <<1, 0, 0, 0, 1>>
Miss       == <<0, 0, 0, 0, 0>>
Short      == <<1, 1, 1>>
OutOfRange == <<2, 0, 1, 0, 0>>

IsValidPins(pins) == Len(pins) = 5 /\ \A i \in 1..5 : pins[i] \in {0, 1}

AllPins == {<<a, b, c, d, e>> : a \in {0, 1}, b \in {0, 1}, c \in {0, 1},
                                d \in {0, 1}, e \in {0, 1}}

\* processBall with a vector of P, while the bounds allow another ball
Throw(P, max) ==
    /\ gamesPlayed < MaxGamesPlayed
    /\ thrown < max
    /\ \E pins \in P : ProcessBall(pins)

Skip == gamesPlayed < MaxGamesPlayed /\ SkipPlayer

\* the clock reads far more than debounceTimeMs since the epoch
Epoch == 2 * debounceTimeMs

Init ==
    /\ bowlers = <<>>
    /\ currentBowlerIndex = 0
    /\ gameActive = FALSE
    /\ isHeld = FALSE
    /\ gameLimit = 0
    /\ gamesPlayed = 0
    /\ emitted = <<>>
    /\ thrown = 0
    /\ currentState = "IDLE"
    /\ machineGameActive = FALSE
    /\ detectionActive = FALSE
    /\ detectionSuspended = FALSE
    /\ ballDetectionCounter = 0
    /\ lastDetectionTime = 0
    /\ currentPinStates = <<1, 1, 1, 1, 1>>
    /\ targetPinStates = <<1, 1, 1, 1, 1>>
    /\ machineInOperation = FALSE
    /\ resetStartTime = 0
    /\ machineTimerActive = FALSE
    /\ machineOp = "MachineInterface"
    /\ machineEmitted = <<>>
    /\ detectionHistory = [last |-> -1, restarted |-> FALSE, gap |-> -1,
                           gapRestarted |-> FALSE]
    /\ now = Epoch
    /\ lastSweep = <<>>
    /\ m_connectionState = "Disconnected"
    /\ m_registered = FALSE
    /\ m_reconnectAttempts = 0
    /\ socketState = "Unconnected"
    /\ reconnectTimer = [active |-> FALSE, interval |-> RECONNECT_INTERVAL]
    /\ heartbeatActive = FALSE
    /\ clientEmitted = <<>>
    /\ tries = <<>>
    /\ forwarded = <<>>
    /\ discoveryBound = FALSE
    /\ m_server = [host |-> "192.168.2.243", port |-> 50005]
    /\ ackedOnConnection = FALSE
    /\ readLines = <<>>
    /\ announcedState = "Disconnected"

-----------------------------------------------------------------------------
(* Spec: the session driven through all its public operations *)

Rosters     == {<<"A", "B">>, <<>>, <<"", "A">>}
GameLimits  == {0, 1}
SessionPins == {Strike, Short, OutOfRange}

Next ==
    \/ /\ \E players \in Rosters, limit \in GameLimits :
              StartGame(players, limit)
       /\ UNCHANGED <<machineVars, clientVars>>
    \/ Throw(SessionPins, MaxBalls) /\ UNCHANGED <<machineVars, clientVars>>
    \/ Skip /\ UNCHANGED <<machineVars, clientVars>>
    \/ HoldGame /\ UNCHANGED <<machineVars, clientVars>>
    \/ EndGame /\ UNCHANGED <<machineVars, clientVars>>

Spec == Init /\ [][Next]_vars

-----------------------------------------------------------------------------
(* SpecScore: one bowler's game, for the scoring arithmetic *)

ScorePins == {Strike, Five, Ten, Miss}

NextScore ==
    \/ StartGame(<<"A">>, 0) /\ UNCHANGED <<machineVars, clientVars>>
    \/ Throw(ScorePins, MaxScoreBalls) /\ UNCHANGED <<machineVars, clientVars>>
    \/ Skip /\ UNCHANGED <<machineVars, clientVars>>

SpecScore == Init /\ [][NextScore]_vars

-----------------------------------------------------------------------------
(* SpecTurn: the opening balls of a two-bowler game *)

TurnPins == {Five, Four, Miss}

NextTurn ==
    \/ StartGame(<<"A", "B">>, 0) /\ UNCHANGED <<machineVars, clientVars>>
    \/ Throw(TurnPins, MaxTurnBalls) /\ UNCHANGED <<machineVars, clientVars>>

SpecTurn == Init /\ [][NextTurn]_vars

-----------------------------------------------------------------------------
(* SpecBall: every pin vector over {0,1}, thrown into the first frames *)

NextBall ==
    \/ StartGame(<<"A">>, 0) /\ UNCHANGED <<machineVars, clientVars>>
    \/ Throw(AllPins \cup {Short, OutOfRange}, MaxProbeBalls)
       /\ UNCHANGED <<machineVars, clientVars>>

SpecBall == Init /\ [][NextBall]_vars

-----------------------------------------------------------------------------
(* SpecLane: the machine controller's detections scored by the game *)

\* pin-sensor sweeps: per channel, the readings of the successive attempts
Volts(v) == <<v>>
AllDownSweep   == <<Volts(45), Volts(45), Volts(45), Volts(45), Volts(45)>>
AllUpSweep     == <<Volts(5), Volts(5), Volts(5), Volts(5), Volts(5)>>
HeadPinSweep   == <<Volts(5), Volts(5), <<-1, 40>>, Volts(39), Volts(5)>>
AllFailedSweep == <<<<-1, -1, -1, -1, -1>>, <<-1, -1, -1, -1, -1>>,
                    <<-1, -1, -1, -1, -1>>, <<-1, -1, -1, -1, -1>>,
                    <<-1, -1, -1, -1, -1>>>>

LaneSweeps == {AllDownSweep, AllUpSweep, HeadPinSweep, AllFailedSweep}

TickMs == debounceTimeMs \div 2

NextLane ==
    \/ StartGame(<<"A">>, 0) /\ UNCHANGED <<machineVars, clientVars>>
    \/ StartBallDetection /\ UNCHANGED <<gameVars, clientVars>>
    \/ \E active \in BOOLEAN :
           SetGameActive(active) /\ UNCHANGED <<gameVars, clientVars>>
    \/ /\ thrown < MaxLaneBalls
       /\ \E sample \in {"HIGH", "LOW"}, sweep \in LaneSweeps :
              CheckBallSensor(sample, sweep)
       /\ UNCHANGED clientVars
    \/ now < Epoch + MaxTicks * TickMs /\ Tick(TickMs)

SpecLane == Init /\ [][NextLane]_vars

-----------------------------------------------------------------------------
(* SpecClient: the lane client connecting, registering and reconnecting *)

NextClient ==
    \/ /\ m_reconnectAttempts < MaxAttempts
       /\ Start
       /\ UNCHANGED <<gameVars, machineVars>>
    \/ SocketConnected /\ UNCHANGED <<gameVars, machineVars>>
    \/ /\ m_reconnectAttempts < MaxAttempts
       /\ SocketError
       /\ UNCHANGED <<gameVars, machineVars>>
    \/ /\ m_reconnectAttempts < MaxAttempts
       /\ RemoteClose
       /\ UNCHANGED <<gameVars, machineVars>>
    \/ /\ Len(tries) < MaxTries
       /\ m_reconnectAttempts < MaxAttempts
       /\ ReconnectTimeout
       /\ UNCHANGED <<gameVars, machineVars>>
    \/ /\ \E status \in {"success", "error"} : RegistrationResponse(status)
       /\ UNCHANGED <<gameVars, machineVars>>

SpecClient == Init /\ [][NextClient]_vars

\* what closing the socket inside stop() comes to: disconnectFromHost on a
\* connected socket raises disconnected() at once, or within the 3 s wait
\* ("closed"), or the wait times out with data still to write ("timeout");
\* on a connecting socket it only marks the close as pending, and within
\* the wait the attempt succeeds and the socket closes ("connected"), or
\* fails ("failed"), or neither ("timeout")
CloseOutcomes(socket) ==
    IF socket = "Unconnected" THEN {"none"}
    ELSE IF socket \in {"Connected", "Closing"} THEN {"closed", "timeout"}
    ELSE {"connected", "failed", "timeout"}

\* m_socket->disconnectFromHost() and waitForDisconnected(3000) with the
\* slots they run
closeSocket(c, outcome) ==
    IF c.socket = "Unconnected" THEN c
    ELSE IF c.socket \in {"Connected", "Closing"}
    THEN IF outcome = "closed"
         THEN onDisconnected([c EXCEPT !.socket = "Unconnected"])
         ELSE [c EXCEPT !.socket = "Closing"]
    ELSE IF outcome = "connected"
    THEN onDisconnected([onConnected([c EXCEPT !.socket = "Connected"])
                            EXCEPT !.socket = "Unconnected"])
    ELSE IF outcome = "failed"
    THEN onError([c EXCEPT !.socket = "Unconnected"])
    ELSE [c EXCEPT !.socket = "PendingClose"]

stop(c, outcome) ==
    LET c1 == [c EXCEPT !.heartbeat = FALSE, !.timer.active = FALSE]
        c2 == closeSocket(c1, outcome)
        c3 == setConnectionState(c2, "Disconnected")
    IN  [c3 EXCEPT !.registered = FALSE]

\* stop()
Stop(outcome) ==
    /\ outcome \in CloseOutcomes(socketState)
    /\ CommitClient(stop(Client, outcome))
    /\ tries' = IF outcome = "connected" THEN <<>> ELSE tries
    /\ ackedOnConnection' = (ackedOnConnection /\ outcome # "connected")
    /\ readLines' = <<>>

\* a socket left closing by stop() finishes: the socket raises disconnected()
SocketClosed ==
    /\ socketState = "Closing"
    /\ CommitClient(onDisconnected([Client EXCEPT !.socket = "Unconnected"]))
    /\ UNCHANGED <<tries, ackedOnConnection>>
    /\ readLines' = <<>>

\* a connection attempt with a close pending succeeds: the socket raises
\* connected(), closes and raises disconnected()
PendingCloseConnected ==
    /\ socketState = "PendingClose"
    /\ CommitClient(closeSocket(Client, "connected"))
    /\ tries' = <<>>
    /\ ackedOnConnection' = FALSE
    /\ readLines' = <<>>

\* a connection attempt with a close pending fails: errorOccurred
PendingCloseError ==
    /\ socketState = "PendingClose"
    /\ CommitClient(closeSocket(Client, "failed"))
    /\ UNCHANGED <<tries, ackedOnConnection>>
    /\ readLines' = <<>>

-----------------------------------------------------------------------------
(* SpecSession: the lane client with the messages of the server and its     *)
(* heartbeat timer                                                          *)

SessionMessages ==
    {Message("registration_response", "success", ""),
     Message("registration_response", "error", ""),
     Message("heartbeat_response", "", ""),
     Message("quick_game", "", "{players}"),
     Message("league_game", "", "7"),
     Message("pre_bowl", "", ""),
     Message("team_move", "", "lane 2"),
     Message("ping", "", ""),
     Message("status_request", "", "now"),
     Message("", "", "")}

NextSession ==
    \/ /\ m_reconnectAttempts < MaxAttempts
       /\ Start
       /\ UNCHANGED <<gameVars, machineVars>>
    \/ SocketConnected /\ UNCHANGED <<gameVars, machineVars>>
    \/ /\ m_reconnectAttempts < MaxAttempts
       /\ SocketError
       /\ UNCHANGED <<gameVars, machineVars>>
    \/ /\ m_reconnectAttempts < MaxAttempts
       /\ RemoteClose
       /\ UNCHANGED <<gameVars, machineVars>>
    \/ /\ Len(tries) < MaxSessionTries
       /\ m_reconnectAttempts < MaxAttempts
       /\ ReconnectTimeout
       /\ UNCHANGED <<gameVars, machineVars>>
    \/ /\ \E message \in SessionMessages : ReceiveMessage(message)
       /\ UNCHANGED <<gameVars, machineVars>>
    \/ HeartbeatTimeout /\ UNCHANGED <<gameVars, machineVars>>

SpecSession == Init /\ [][NextSession]_vars

-----------------------------------------------------------------------------
(* SpecOutage: the lane client started once, against a server that may be   *)
(* unreachable, with the discovery fallback                                 *)

DiscoveredHosts == {"", "10.0.0.7"}
DiscoveredPorts == {0, 50005, 65541}

NextOutage ==
    \/ /\ m_connectionState = "Disconnected"
       /\ Start
       /\ UNCHANGED <<gameVars, machineVars>>
    \/ SocketConnected /\ UNCHANGED <<gameVars, machineVars>>
    \/ SocketError /\ UNCHANGED <<gameVars, machineVars>>
    \/ RemoteClose /\ UNCHANGED <<gameVars, machineVars>>
    \/ /\ Len(tries) < MaxOutageTries
       /\ ReconnectTimeout
       /\ UNCHANGED <<gameVars, machineVars>>
    \/ /\ \E status \in {"success", "error"} : RegistrationResponse(status)
       /\ UNCHANGED <<gameVars, machineVars>>
    \/ /\ \E host \in DiscoveredHosts, port \in DiscoveredPorts :
              DiscoveryResponse(host, port)
       /\ UNCHANGED <<gameVars, machineVars>>

SpecOutage == Init /\ [][NextOutage]_vars

-----------------------------------------------------------------------------
(* SpecRead: the lane client reading several lines at once, some of them    *)
(* not JSON objects                                                         *)

ReadMessages ==
    {Message("registration_response", "success", ""),
     Message("ping", "", ""),
     Message("status_request", "", "now"),
     Message("status_request", "", "later")}

ReadLines ==
    {Line("garbage", NoMessage), Line("array", NoMessage)}
        \cup {Line("object", message) : message \in ReadMessages}

Reads == UNION {[1..n -> ReadLines] : n \in 1..MaxLines}

NextRead ==
    \/ /\ m_connectionState = "Disconnected"
       /\ Start
       /\ UNCHANGED <<gameVars, machineVars>>
    \/ SocketConnected /\ UNCHANGED <<gameVars, machineVars>>
    \/ RemoteClose /\ UNCHANGED <<gameVars, machineVars>>
    \/ /\ Len(tries) < MaxReadTries
       /\ ReconnectTimeout
       /\ UNCHANGED <<gameVars, machineVars>>
    \/ /\ \E lines \in Reads : ReadyRead(lines)
       /\ UNCHANGED <<gameVars, machineVars>>
    \/ HeartbeatTimeout /\ UNCHANGED <<gameVars, machineVars>>

SpecRead == Init /\ [][NextRead]_vars

-----------------------------------------------------------------------------
(* SpecStop: the lane client and the ball detection started and stopped at  *)
(* any moment                                                               *)

StopOutcomes == {"none", "closed", "connected", "failed", "timeout"}

NextStop ==
    \/ /\ m_reconnectAttempts < MaxAttempts
       /\ Start
       /\ UNCHANGED <<gameVars, machineVars>>
    \/ SocketConnected /\ UNCHANGED <<gameVars, machineVars>>
    \/ /\ m_reconnectAttempts < MaxAttempts
       /\ SocketError
       /\ UNCHANGED <<gameVars, machineVars>>
    \/ /\ m_reconnectAttempts < MaxAttempts
       /\ RemoteClose
       /\ UNCHANGED <<gameVars, machineVars>>
    \/ /\ Len(tries) < MaxStopTries
       /\ m_reconnectAttempts < MaxAttempts
       /\ ReconnectTimeout
       /\ UNCHANGED <<gameVars, machineVars>>
    \/ /\ \E status \in {"success", "error"} : RegistrationResponse(status)
       /\ UNCHANGED <<gameVars, machineVars>>
    \/ HeartbeatTimeout /\ UNCHANGED <<gameVars, machineVars>>
    \/ /\ m_reconnectAttempts < MaxAttempts
       /\ \E outcome \in StopOutcomes : Stop(outcome)
       /\ UNCHANGED <<gameVars, machineVars>>
    \/ SocketClosed /\ UNCHANGED <<gameVars, machineVars>>
    \/ PendingCloseConnected /\ UNCHANGED <<gameVars, machineVars>>
    \/ /\ m_reconnectAttempts < MaxAttempts
       /\ PendingCloseError
       /\ UNCHANGED <<gameVars, machineVars>>
    \/ StartBallDetection /\ UNCHANGED <<gameVars, clientVars>>
    \/ StopBallDetection /\ UNCHANGED <<gameVars, clientVars>>

SpecStop == Init /\ [][NextStop]_vars

-----------------------------------------------------------------------------
(* SpecSweep: detections with every combination of channel readings *)

\* a channel that reads 4.0 V, one that reads 3.9 V, one that succeeds at
\* the fifth attempt, one whose five attempts fail (a sixth reading would
\* give 4.5 V), one whose loop the time budget ends after two failures
ChannelReads ==
    {<<40>>, <<39>>, <<-1, -1, -1, -1, 40>>, <<-1, -1, -1, -1, -1, 45>>,
     <<-1, -1>>}

\* the sweeps in which at most two channels read something else than 3.9 V
Sweeps ==
    {sweep \in [1..5 -> ChannelReads] :
        Cardinality({k \in 1..5 : sweep[k] # <<39>>}) <= 2}

NextSweep ==
    \/ StartBallDetection /\ UNCHANGED <<gameVars, clientVars>>
    \/ SetGameActive(TRUE) /\ UNCHANGED <<gameVars, clientVars>>
    \/ /\ \E sample \in {"HIGH", "LOW"}, sweep \in Sweeps :
              CheckBallSensor(sample, sweep)
       /\ UNCHANGED clientVars

SpecSweep == Init /\ [][NextSweep]_vars

-----------------------------------------------------------------------------
(* SpecSnapshot: a session of one game played, held and restored from its   *)
(* snapshot                                                                 *)

SnapshotPins == {Strike, Short}

NextSnapshot ==
    \/ StartGame(<<"A", "B">>, 1) /\ UNCHANGED <<machineVars, clientVars>>
    \/ Throw(SnapshotPins, MaxSnapshotBalls)
       /\ UNCHANGED <<machineVars, clientVars>>
    \/ Skip /\ UNCHANGED <<machineVars, clientVars>>
    \/ HoldGame /\ UNCHANGED <<machineVars, clientVars>>
    \/ RestoreSnapshot /\ UNCHANGED <<machineVars, clientVars>>

SpecSnapshot == Init /\ [][NextSnapshot]_vars

-----------------------------------------------------------------------------
(* SpecPerfect: one bowler's game of strikes and five-pin balls *)

PerfectPins == {Strike, Five}

NextPerfect ==
    \/ StartGame(<<"A">>, 0) /\ UNCHANGED <<machineVars, clientVars>>
    \/ Throw(PerfectPins, MaxPerfectBalls)
       /\ UNCHANGED <<machineVars, clientVars>>

SpecPerfect == Init /\ [][NextPerfect]_vars

-----------------------------------------------------------------------------
(* SpecRoundRobin: three bowlers, driven by startGame, processBall and      *)
(* skipPlayer only                                                          *)

RoundRobinPins == {Strike, Five, Ten}

NextRoundRobin ==
    \/ StartGame(<<"A", "B", "C">>, 0) /\ UNCHANGED <<machineVars, clientVars>>
    \/ Throw(RoundRobinPins, MaxRoundRobinBalls)
       /\ UNCHANGED <<machineVars, clientVars>>
    \/ Skip /\ UNCHANGED <<machineVars, clientVars>>

SpecRoundRobin == Init /\ [][NextRoundRobin]_vars

-----------------------------------------------------------------------------
(* SpecMachine: the machine controller under every interleaving of its     *)
(* commands, its two timers and the clock                                   *)

HeadPinDown == <<1, 1, 0, 1, 1>>
PinConfigurations == {HeadPinDown, Short}

CycleTickMs == machineCycleTimeMs \div 2

NextMachine ==
    \/ /\ \E hardwareOk \in BOOLEAN : Initialize(hardwareOk)
       /\ UNCHANGED <<gameVars, clientVars>>
    \/ StartBallDetection /\ UNCHANGED <<gameVars, clientVars>>
    \/ StopBallDetection /\ UNCHANGED <<gameVars, clientVars>>
    \/ /\ \E suspended \in BOOLEAN : SetDetectionSuspended(suspended)
       /\ UNCHANGED <<gameVars, clientVars>>
    \/ /\ \E active \in BOOLEAN : SetGameActive(active)
       /\ UNCHANGED <<gameVars, clientVars>>
    \/ /\ \E immediate \in BOOLEAN : ResetPins(immediate, TRUE)
       /\ UNCHANGED <<gameVars, clientVars>>
    \/ /\ \E pinStates \in PinConfigurations : SetPinConfiguration(pinStates)
       /\ UNCHANGED <<gameVars, clientVars>>
    \/ /\ \E pulseOk \in BOOLEAN : OnMachineTimer(pulseOk)
       /\ UNCHANGED <<gameVars, clientVars>>
    \/ /\ \E sample \in {"HIGH", "LOW"} : CheckBallSensor(sample, AllDownSweep)
       /\ UNCHANGED clientVars
    \/ now < Epoch + MaxCycleTicks * CycleTickMs /\ Tick(CycleTickMs)

SpecMachine == Init /\ [][NextMachine]_vars

-----------------------------------------------------------------------------
(* SpecCycle: machine cycles run to their end.  The 50 ms machine timer     *)
(* keeps firing once initialize() has started it and the wall clock keeps   *)
(* moving, which the two fairness conditions state; commands stop arriving  *)
(* at CommandHorizon.                                                       *)

CommandHorizon == Epoch + MaxCycleTicks * CycleTickMs

MachineTimerFires ==
    /\ \E pulseOk \in BOOLEAN : OnMachineTimer(pulseOk)
    /\ UNCHANGED <<gameVars, clientVars>>

\* the clock is followed while a cycle is waiting for its time
CycleClock ==
    /\ machineInOperation
    /\ now - resetStartTime < machineCycleTimeMs
    /\ Tick(CycleTickMs)

NextCycle ==
    \/ /\ \E hardwareOk \in BOOLEAN : Initialize(hardwareOk)
       /\ UNCHANGED <<gameVars, clientVars>>
    \/ /\ now < CommandHorizon
       /\ \E immediate \in BOOLEAN : ResetPins(immediate, TRUE)
       /\ UNCHANGED <<gameVars, clientVars>>
    \/ /\ now < CommandHorizon
       /\ \E pinStates \in PinConfigurations : SetPinConfiguration(pinStates)
       /\ UNCHANGED <<gameVars, clientVars>>
    \/ MachineTimerFires
    \/ CycleClock

SpecCycle ==
    /\ Init
    /\ [][NextCycle]_vars
    /\ WF_vars(MachineTimerFires)
    /\ WF_vars(CycleClock)

-----------------------------------------------------------------------------
(* Properties *)

Bowlers == 1..Len(bowlers)

\* every ball recorded in some frame of some bowler
RecordedBalls ==
    UNION {{bowlers[i].frames[f].balls[k] :
               k \in 1..Len(bowlers[i].frames[f].balls)} :
           i \in Bowlers, f \in 0..9}

Values(frame) == [k \in 1..Len(frame.balls) |-> frame.balls[k].value]

\* the balls a bowler threw after frame f, in the order thrown
RECURSIVE ballsAfter(_, _)
ballsAfter(frames, f) ==
    IF f >= 9 THEN <<>> ELSE frames[f + 1].balls \o ballsAfter(frames, f + 1)

\* the spare of the data model: the first two balls sum to 15 and the first
\* is not a strike
FirstTwoSpare(frame) ==
    /\ Len(frame.balls) >= 2
    /\ frame.balls[1].value # 15
    /\ frame.balls[1].value + frame.balls[2].value = 15

(* C1: a strike in any of frames 0..8 scores 15 plus the values of the      *)
(* bowler's next two balls, once those two balls are thrown.                *)
C1_StrikeScoresNextTwoBalls ==
    \A i \in Bowlers : \A f \in 0..8 :
        LET frames == bowlers[i].frames
            next   == ballsAfter(frames, f)
        IN  (frames[f].balls # <<>> /\ frames[f].balls[1].value = 15
                /\ Len(next) >= 2)
            => frames[f].frameScore = 15 + next[1].value + next[2].value

(* C2 as stated: with roster [A, B], once A's first frame holds the balls   *)
(* 5 and 4 the frame is complete and it is B's turn.                        *)
C2_OpenFrameCompletesAtTwoBalls ==
    (Len(bowlers) = 2 /\ Values(bowlers[1].frames[0]) = <<5, 4>>)
    => (bowlers[1].frames[0].isComplete /\ currentBowlerIndex = 1)

(* C2 amended: with roster [A, B], after A's balls 5 and 4 the first frame  *)
(* is still open and it is still A's turn; the frame is complete, A is in   *)
(* the next frame and the turn is B's once A has thrown a third ball.       *)
C2_OpenFrameNeedsThirdBall ==
    Len(bowlers) = 2 =>
        LET A == bowlers[1]
            v == Values(A.frames[0])
        IN  /\ v = <<5, 4>>
               => (~A.frames[0].isComplete /\ A.currentFrame = 0
                      /\ currentBowlerIndex = 0)
            /\ (Len(v) = 3 /\ v[1] = 5 /\ v[2] = 4)
               => /\ A.frames[0].isComplete
                  /\ A.currentFrame = 1
                  /\ ~bowlers[2].frames[0].isComplete
                         => currentBowlerIndex = 1

C2_Witness ==
    /\ Len(bowlers) = 2
    /\ Len(bowlers[1].frames[0].balls) = 3
    /\ bowlers[1].frames[0].balls[1].value = 5
    /\ bowlers[1].frames[0].balls[2].value = 4
    /\ bowlers[1].frames[0].isComplete
    /\ currentBowlerIndex = 1

(* C3: in no frame of any bowler do the recorded balls sum to more than 15. *)
C3_FrameSumAtMost15 ==
    \A i \in Bowlers : \A f \in 0..9 :
        getFrameTotal(bowlers[i].frames[f]) <= 15

(* C4: processBall on an active, non-held game with a malformed pin vector  *)
(* changes no bowler and no turn, and reports an error.                     *)
C4_MalformedPinsRejected ==
    [][\A pins \in {Short, OutOfRange} :
          (gameActive /\ ~isHeld /\ bowlers # <<>> /\ ProcessBall(pins))
          => /\ bowlers' = bowlers
             /\ currentBowlerIndex' = currentBowlerIndex
             /\ \E k \in 1..Len(emitted') : emitted'[k].sig = "errorOccurred"
      ]_vars

\* the points of the pins a machine pin vector reports down (0)
MachineDownValue(pinStates) ==
    (IF pinStates[1] = 0 THEN 2 ELSE 0) + (IF pinStates[2] = 0 THEN 3 ELSE 0)
    + (IF pinStates[3] = 0 THEN 5 ELSE 0) + (IF pinStates[4] = 0 THEN 3 ELSE 0)
    + (IF pinStates[5] = 0 THEN 2 ELSE 0)

(* C5: a ball scored from a machine detection is worth the points of the    *)
(* pins the machine reported down: 15 when all five are down, 0 when all    *)
(* five still stand.                                                        *)
C5_MachineDownPinsScored ==
    \A b \in RecordedBalls : b.value = MachineDownValue(b.pins)

C7_SpareScoresNextBall ==
    \A i \in Bowlers : \A f \in 0..8 :
        LET frames == bowlers[i].frames
        IN  FirstTwoSpare(frames[f])
            => frames[f].frameScore =
                   15 + (IF frames[f + 1].balls # <<>>
                         THEN frames[f + 1].balls[1].value ELSE 0)

C7_Witness ==
    \E i \in Bowlers :
        /\ FirstTwoSpare(bowlers[i].frames[8])
        /\ bowlers[i].frames[9].balls # <<>>
        /\ bowlers[i].frames[9].balls[1].value = 5
        /\ bowlers[i].frames[8].frameScore = 20

(* C8: a frame is a spare exactly when its first ball is no strike and its  *)
(* first two balls sum to 15; a frame of frames 0..8 that reaches 15 only   *)
(* with its third ball scores the plain sum of its balls.                   *)
C8_SpareIffFirstTwoBalls ==
    \A i \in Bowlers : \A f \in 0..8 :
        LET frame == bowlers[i].frames[f]
        IN  /\ isSpare(frame) <=> FirstTwoSpare(frame)
            /\ (frame.balls # <<>> /\ ~isStrike(frame)
                   /\ ~FirstTwoSpare(frame))
               => frame.frameScore = getFrameTotal(frame)

(* C9: every frame of every bowler holds at most 3 balls. *)
C9_AtMostThreeBalls ==
    \A i \in Bowlers : \A f \in 0..9 : Len(bowlers[i].frames[f].balls) <= 3

(* C10: with a non-empty roster the game is complete exactly when every     *)
(* bowler is in frame 9 and that frame is complete; with an empty roster    *)
(* it is not complete.                                                      *)
C10_GameCompleteIff ==
    IF bowlers = <<>> THEN ~isGameComplete(bowlers)
    ELSE isGameComplete(bowlers)
         <=> \A i \in Bowlers : /\ bowlers[i].currentFrame = 9
                                /\ bowlers[i].frames[9].isComplete

C10_Witness ==
    /\ Len(bowlers) = 2
    /\ isGameComplete(bowlers)
    /\ gamesPlayed = 1

(* C11: the delay waited before the n-th consecutive reconnect try since    *)
(* the last successful connection (n = 0, 1, 2, ...) is                     *)
(* min(1000 * 2^n, 30000); the first one after a successful connection is   *)
(* 1000 again.                                                              *)
C11_ReconnectDelayDoubles ==
    \A n \in 1..Len(tries) : tries[n] = Min(1000 * 2 ^ (n - 1), 30000)

Raised(sigs, s) == \E k \in 1..Len(sigs) : sigs[k] = s

(* C12: a ball-sensor poll that runs while the machine is not idle, the     *)
(* game is not active, detection is suspended or detection is not active    *)
(* raises no ballDetected and leaves the debounce counter,                  *)
(* lastDetectionTime, currentPinStates and currentState unchanged.          *)
C12_RejectedPollChangesNothing ==
    [][(/\ machineOp' = "checkBallSensor"
        /\ \/ currentState # "IDLE" \/ ~machineGameActive
           \/ detectionSuspended \/ ~detectionActive)
       => /\ ~Raised(machineEmitted', "ballDetected")
          /\ UNCHANGED <<ballDetectionCounter, lastDetectionTime,
                         currentPinStates, currentState>>
      ]_vars

C12_Witness ==
    /\ machineOp = "checkBallSensor"
    /\ currentState = "SETTING_PINS"
    /\ machineGameActive /\ detectionActive /\ ~detectionSuspended
    /\ ballDetectionCounter = 3

(* C13: no ball detection is accepted while a machine cycle is in flight.   *)
C13_NoDetectionWhileBusy ==
    [][(machineOp' = "checkBallSensor"
           /\ Raised(machineEmitted', "ballDetected"))
       => ~machineInOperation
      ]_vars

(* C14: once resetPins(false) or setPinConfiguration has put the controller *)
(* into RESETTING or SETTING_PINS, currentState becomes IDLE again only by  *)
(* the machine tick that performs the actuation, with the cycle time        *)
(* elapsed.                                                                 *)
C14_IdleOnlyAfterActuation ==
    [][(currentState \in {"RESETTING", "SETTING_PINS"}
           /\ currentState' = "IDLE")
       => /\ machineOp' = "onMachineTimer"
          /\ Raised(machineEmitted', "executePinConfiguration")
          /\ now - resetStartTime >= machineCycleTimeMs
      ]_vars

\* the end state of a machine cycle
CycleDone ==
    /\ currentState = "IDLE"
    /\ ~machineInOperation
    /\ currentPinStates = targetPinStates

\* a started cycle is eventually actuated, once no further command arrives
C15_CycleEventuallyDone ==
    (machineInOperation /\ machineTimerActive) ~> CycleDone

\* the machine tick actuates only a started cycle whose time has elapsed,
\* and ends it, so that each cycle is actuated once
C15_ActuatedOnce ==
    [][(\E pulseOk \in BOOLEAN : OnMachineTimer(pulseOk)
           /\ Raised(machineEmitted', "executePinConfiguration"))
       => /\ machineInOperation
          /\ now - resetStartTime >= machineCycleTimeMs
          /\ CycleDone'
      ]_vars

\* resetPins(true) returns in the end state of a cycle, all pins up
C15_ImmediateResetDone ==
    [][ResetPins(TRUE, TRUE)
       => (CycleDone' /\ currentPinStates' = <<1, 1, 1, 1, 1>>)
      ]_vars

(* C15: after resetPins(false) or a valid setPinConfiguration, with the     *)
(* machine tick firing and no further command, the cycle eventually         *)
(* completes: it is actuated exactly once when its time has elapsed, and    *)
(* then currentState = IDLE, machineInOperation = false and                 *)
(* currentPinStates is the target; resetPins(true) is in that end state,    *)
(* all pins up, when it returns.                                            *)
C15_CycleCompletes ==
    /\ C15_CycleEventuallyDone
    /\ C15_ActuatedOnce
    /\ C15_ImmediateResetDone

\* a poll of the ball sensor with the given sample
Poll(sample) ==
    \E sweep \in LaneSweeps : CheckBallSensor(sample, sweep)

\* a poll that raises ballDetected
Fires ==
    /\ \E sample \in {"HIGH", "LOW"} : Poll(sample)
    /\ Raised(machineEmitted', "ballDetected")

\* the poll is not turned away by the guard of checkBallSensor
Sampled ==
    /\ detectionActive /\ ~detectionSuspended
    /\ machineGameActive /\ currentState = "IDLE"

\* a detection fires only on a positive sample that brings the counter to
\* detectionThreshold, and resets the counter; a non-positive sample resets
\* the counter
C16_ThresholdAndReset ==
    /\ Fires => /\ Poll("HIGH")
                /\ ballDetectionCounter + 1 >= detectionThreshold
                /\ ballDetectionCounter' = 0
    /\ (Sampled /\ Poll("LOW")) => ballDetectionCounter' = 0

(* C16 as stated: a detection fires only on a poll at which the count of    *)
(* consecutive positive samples has reached detectionThreshold and at least *)
(* debounceTimeMs has elapsed since the last accepted detection, so that    *)
(* two accepted detections are never less than debounceTimeMs apart; the    *)
(* counter is reset to 0 when a detection fires and by any non-positive     *)
(* sample.                                                                  *)
C16_DetectionsDebounced ==
    [][/\ C16_ThresholdAndReset
       /\ Fires => (detectionHistory.last >= 0
                       => now - detectionHistory.last >= debounceTimeMs)
      ]_vars

(* C16 amended: a detection fires only on a poll at which the count of      *)
(* consecutive positive samples has reached detectionThreshold and at least *)
(* debounceTimeMs has elapsed since lastDetectionTime, which is the time of *)
(* the last accepted detection unless startBallDetection was called since   *)
(* and reset it to 0; two accepted detections with no startBallDetection    *)
(* between them are never less than debounceTimeMs apart; the counter is    *)
(* reset to 0 when a detection fires and by any non-positive sample.        *)
C16_DetectionsDebouncedSinceStart ==
    [][/\ C16_ThresholdAndReset
       /\ Fires => /\ now - lastDetectionTime >= debounceTimeMs
                   /\ (detectionHistory.last >= 0
                          /\ ~detectionHistory.restarted)
                      => now - detectionHistory.last >= debounceTimeMs
      ]_vars

C16_Witness ==
    /\ machineOp = "checkBallSensor"
    /\ Raised(machineEmitted, "ballDetected")
    /\ detectionHistory.gap >= debounceTimeMs
    /\ ~detectionHistory.gapRestarted
    /\ ballDetectionCounter = 0

\* the names of the events a handler raised
Sigs(events) == [k \in 1..Len(events) |-> events[k].sig]

\* the completion rule of frame index f (0..8 are frames 1-9, 9 is frame 10)
CompletionRule(frame, f) ==
    LET v == Values(frame)
    IN  IF f < 9
        THEN \/ Len(v) >= 1 /\ v[1] = 15
             \/ FirstTwoSpare(frame)
             \/ Len(v) >= 3
        ELSE \/ Len(v) >= 3
             \/ Len(v) = 2 /\ v[1] < 15 /\ v[1] + v[2] < 15

(* C18: a frame is marked complete exactly when its completion rule is met: *)
(* in frames 1-9 after a strike, a spare or 3 balls; in frame 10 after 3    *)
(* balls, or after 2 balls with first ball < 15 and sum < 15.  A 10th frame *)
(* that opens with a strike or a spare is complete only with a third ball.  *)
C18_CompleteIffRule ==
    \A i \in Bowlers : \A f \in 0..9 :
        LET frame == bowlers[i].frames[f]
            v     == Values(frame)
        IN  /\ frame.isComplete <=> CompletionRule(frame, f)
            /\ (f = 9 /\ frame.isComplete /\ Len(v) >= 2
                   /\ (v[1] = 15 \/ v[1] + v[2] = 15))
               => Len(v) >= 3

C18_Witness ==
    /\ Raised(Sigs(emitted), "frameCompleted")
    /\ \E i \in Bowlers :
           /\ Values(bowlers[i].frames[9]) = <<15, 5, 0>>
           /\ bowlers[i].frames[9].isComplete

(* C17: processBall while the game is held, not active or without a roster  *)
(* appends no ball, changes no score, currentFrame, isComplete flag,        *)
(* currentBowlerIndex or gamesPlayed, and raises no ball-processed,         *)
(* frame-completed or special-effect event.                                 *)
C17_RejectedBallChangesNothing ==
    [][\A pins \in SessionPins :
          ((~gameActive \/ isHeld \/ bowlers = <<>>) /\ ProcessBall(pins))
          => /\ bowlers' = bowlers
             /\ currentBowlerIndex' = currentBowlerIndex
             /\ gamesPlayed' = gamesPlayed
             /\ \A s \in {"ballProcessed", "frameCompleted",
                           "specialEffect:strike", "specialEffect:spare"} :
                    ~Raised(Sigs(emitted'), s)
      ]_vars

\* a ball was turned away while the game was held
C17_Witness ==
    /\ isHeld /\ gameActive /\ bowlers # <<>>
    /\ emitted = <<>>

\* the pin vectors the specifications hand to processBall
ThrownPins == SessionPins \cup ScorePins \cup TurnPins

\* a processBall step that passes the guard; it raises ballProcessed
AcceptedBall ==
    /\ gameActive /\ ~isHeld /\ bowlers # <<>>
    /\ Raised(Sigs(emitted'), "ballProcessed")
    /\ \E pins \in ThrownPins : ProcessBall(pins)

\* a skipPlayer step that passes the guard; it raises currentPlayerChanged
\* and neither ballProcessed nor gameStarted
AcceptedSkip ==
    /\ gameActive /\ bowlers # <<>>
    /\ Raised(Sigs(emitted'), "currentPlayerChanged")
    /\ ~Raised(Sigs(emitted'), "ballProcessed")
    /\ ~Raised(Sigs(emitted'), "gameStarted")
    /\ SkipPlayer

(* C19: when processBall or skipPlayer completes the active bowler's frame, *)
(* that bowler's currentFrame goes up by one if it was below 9 and stays 9  *)
(* otherwise, and currentBowlerIndex becomes (index + 1) mod roster size;   *)
(* when the ball does not complete the frame, both are unchanged.           *)
C19_TurnAdvancesOnCompletion ==
    [][(AcceptedBall \/ AcceptedSkip)
       => LET i  == currentBowlerIndex + 1
              cf == bowlers[i].currentFrame
          IN  IF bowlers'[i].frames[cf].isComplete
              THEN /\ bowlers'[i].currentFrame = IF cf < 9 THEN cf + 1 ELSE 9
                   /\ currentBowlerIndex' =
                          (currentBowlerIndex + 1) % Len(bowlers)
              ELSE /\ bowlers'[i].currentFrame = cf
                   /\ currentBowlerIndex' = currentBowlerIndex
      ]_vars

\* the second of two bowlers has completed the last frame and the turn is
\* back with the first
C19_Witness ==
    /\ Len(bowlers) = 2
    /\ currentBowlerIndex = 0
    /\ bowlers[1].currentFrame = 9
    /\ bowlers[2].currentFrame = 9
    /\ bowlers[2].frames[9].isComplete
    /\ bowlers[2].frames[8].isComplete

\* the first n balls of a frame
FirstBalls(frame, n) == [frame EXCEPT !.balls = SubSeq(@, 1, n)]

(* C20: skipPlayer on an active game with a roster appends only zero-value  *)
(* balls to the active bowler's current frame, stopping as soon as the      *)
(* frame's completion rule is met and never going beyond 3 balls, keeps the *)
(* balls already thrown, marks the frame complete, leaves the scores        *)
(* recomputed and passes the turn to the next bowler; on an inactive game   *)
(* or an empty roster it changes nothing.                                   *)
C20_SkipFillsWithMisses ==
    [][/\ AcceptedSkip
          => LET i   == currentBowlerIndex + 1
                 cf  == bowlers[i].currentFrame
                 old == bowlers[i].frames[cf]
                 new == bowlers'[i].frames[cf]
                 n   == Len(old.balls)
                 m   == Len(new.balls)
             IN  /\ m >= n /\ SubSeq(new.balls, 1, n) = old.balls
                 /\ \A k \in (n + 1)..m : new.balls[k].value = 0
                 /\ m > n => m <= 3
                 /\ \A k \in n..(m - 1) :
                        ~CompletionRule(FirstBalls(new, k), cf)
                 /\ CompletionRule(new, cf)
                 /\ new.isComplete
                 /\ bowlers' = updateScoring(bowlers')
                 /\ currentBowlerIndex' =
                        (currentBowlerIndex + 1) % Len(bowlers)
       /\ ((~gameActive \/ bowlers = <<>>) /\ SkipPlayer)
          => /\ UNCHANGED <<bowlers, currentBowlerIndex, gameActive,
                            gamesPlayed, isHeld, gameLimit>>
             /\ emitted' = <<>>
      ]_vars

\* skips filled a 9th frame with three misses, a 10th frame with two, and
\* the last skip raised no ball event
C20_Witness ==
    /\ ~Raised(Sigs(emitted), "ballProcessed")
    /\ Raised(Sigs(emitted), "currentPlayerChanged")
    /\ \E i \in Bowlers :
           /\ Values(bowlers[i].frames[8]) = <<0, 0, 0>>
           /\ Values(bowlers[i].frames[9]) = <<0, 0>>
           /\ bowlers[i].frames[9].isComplete

\* the sum of frameScore over frames 0..f
RECURSIVE frameScoresUpTo(_, _)
frameScoresUpTo(frames, f) ==
    IF f < 0 THEN 0 ELSE frames[f].frameScore + frameScoresUpTo(frames, f - 1)

\* the plain sum of the values of a frame's balls
RECURSIVE plainSum(_)
plainSum(v) == IF v = <<>> THEN 0 ELSE Head(v) + plainSum(Tail(v))

(* C21: for every bowler and every frame index f the frame's totalScore is  *)
(* the sum of frameScore over frames 0..f, a frame with no balls has        *)
(* frameScore 0, frame 9's frameScore is the plain sum of its own balls,    *)
(* and the bowler's totalScore is frame 9's totalScore.                     *)
C21_RunningTotals ==
    \A i \in Bowlers :
        LET frames == bowlers[i].frames
        IN  /\ \A f \in 0..9 :
                   /\ frames[f].totalScore = frameScoresUpTo(frames, f)
                   /\ frames[f].balls = <<>> => frames[f].frameScore = 0
            /\ frames[9].frameScore = plainSum(Values(frames[9]))
            /\ bowlers[i].totalScore = frames[9].totalScore

C21_Witness ==
    \E i \in Bowlers :
        /\ Values(bowlers[i].frames[8]) = <<0, 0, 0>>
        /\ Values(bowlers[i].frames[9]) = <<15, 15, 5>>
        /\ bowlers[i].frames[9].frameScore = 35
        /\ bowlers[i].totalScore = 35

\* the non-empty strings of a sequence, in order
RECURSIVE NonEmptyNames(_)
NonEmptyNames(players) ==
    IF players = <<>> THEN <<>>
    ELSE IF Head(players) = "" THEN NonEmptyNames(Tail(players))
    ELSE <<Head(players)>> \o NonEmptyNames(Tail(players))

\* a bowler as constructed: ten frames without balls, in frame 0
IsFreshBowler(b) ==
    /\ DOMAIN b.frames = 0..9
    /\ \A f \in 0..9 : /\ b.frames[f].balls = <<>>
                        /\ ~b.frames[f].isComplete
                        /\ b.frames[f].frameScore = 0
                        /\ b.frames[f].totalScore = 0
    /\ b.currentFrame = 0
    /\ b.totalScore = 0

(* C22: startGame with no non-empty player name starts an active, non-held  *)
(* game with exactly 2 default bowlers, each with 10 empty frames and       *)
(* currentFrame 0, and currentBowlerIndex 0; with non-empty names it        *)
(* creates exactly one fresh bowler per non-empty name, in order.           *)
C22_StartGameRoster ==
    [][\A players \in Rosters, limit \in GameLimits :
          StartGame(players, limit)
          => LET names == NonEmptyNames(players)
             IN  /\ gameActive' /\ ~isHeld' /\ currentBowlerIndex' = 0
                 /\ \A i \in 1..Len(bowlers') : IsFreshBowler(bowlers'[i])
                 /\ IF names = <<>>
                    THEN Len(bowlers') = 2
                    ELSE /\ Len(bowlers') = Len(names)
                         /\ \A i \in 1..Len(names) :
                                bowlers'[i].name = names[i]
      ]_vars

\* a game just started on the default roster
C22_Witness ==
    /\ Raised(Sigs(emitted), "gameStarted")
    /\ Len(bowlers) = 2
    /\ bowlers[1].name = "Player 1" /\ bowlers[2].name = "Player 2"
    /\ gameActive /\ ~isHeld /\ currentBowlerIndex = 0

(* C23: when a processBall or skipPlayer call makes the game complete, a    *)
(* game-completed event is raised; then, if a game limit is configured and  *)
(* gamesPlayed has reached it, the session is ended (gameActive false,      *)
(* gameEnded raised), otherwise the game stays active.                      *)
C23_GameCompletedRaised ==
    [][((AcceptedBall \/ AcceptedSkip)
           /\ ~isGameComplete(bowlers) /\ isGameComplete(bowlers'))
       => /\ Raised(Sigs(emitted'), "gameCompleted")
          /\ IF gameLimit > 0 /\ gamesPlayed' >= gameLimit
             THEN ~gameActive' /\ Raised(Sigs(emitted'), "gameEnded")
             ELSE gameActive'
      ]_vars

(* C24: when the socket reports connected, the client in one step sets the  *)
(* connection state to Connected, resets the reconnect-attempt counter to   *)
(* 0, sends a registration message and only then raises 'connected'; no     *)
(* heartbeat is sent before a registration_response with status success     *)
(* has arrived on that connection.                                          *)
C24_RegisterThenSignal ==
    [][/\ (socketState = "Connecting" /\ socketState' = "Connected")
          => LET steps ==
                     onConnectedSteps([Client EXCEPT !.socket = "Connected"])
             IN  /\ steps[1].state = "Connected"
                 /\ steps[2].attempts = 0
                 /\ ~Raised(steps[2].emitted, "registration")
                 /\ Raised(steps[3].emitted, "registration")
                 /\ ~Raised(steps[3].emitted, "connected")
                 /\ steps[4].emitted = Append(steps[3].emitted, "connected")
                 /\ m_connectionState' = "Connected"
                 /\ m_reconnectAttempts' = 0
                 /\ clientEmitted' = <<"connectionStateChanged",
                                       "registration", "connected">>
       /\ Raised(clientEmitted', "heartbeat") => ackedOnConnection
      ]_vars

\* connected after a failed try: registered on the wire, not yet acknowledged
C24_Witness ==
    /\ clientEmitted = <<"connectionStateChanged", "registration",
                         "connected">>
    /\ m_connectionState = "Connected" /\ socketState = "Connected"
    /\ m_reconnectAttempts = 0
    /\ ~ackedOnConnection /\ ~heartbeatActive

\* the m_reconnectTimer fires below the attempt limit
RetryStep ==
    /\ reconnectTimer.active
    /\ m_reconnectAttempts < MAX_RECONNECT_ATTEMPTS
    /\ ReconnectTimeout

(* C25: on a registration_response with status success the client becomes   *)
(* registered and its heartbeat timer runs; on any other status it is not   *)
(* registered, its state becomes Reconnecting and a reconnect attempt is    *)
(* scheduled, and the scheduled attempt starts a new connection attempt.    *)
C25_RegistrationResponseHandled ==
    [][/\ ReceiveMessage(Message("registration_response", "success", ""))
          => (m_registered' /\ heartbeatActive')
       /\ ReceiveMessage(Message("registration_response", "error", ""))
          => /\ ~m_registered'
             /\ m_connectionState' = "Reconnecting"
             /\ reconnectTimer'.active
       /\ RetryStep => socketState' = "Connecting"
      ]_vars

(* C26: on a socket disconnect or socket error while the client is          *)
(* Connecting or Connected, the connection state becomes Reconnecting, the  *)
(* registered flag is cleared, the heartbeat timer is stopped and the       *)
(* single-shot reconnect timer is left running.                             *)
C26_DropSchedulesReconnect ==
    [][(/\ \/ m_connectionState \in {"Connecting", "Connected"}
           \/ socketState \in {"Connecting", "Connected"}
        /\ SocketError \/ RemoteClose)
       => /\ m_connectionState' = "Reconnecting"
          /\ ~m_registered'
          /\ ~heartbeatActive'
          /\ reconnectTimer'.active
      ]_vars

\* the server closed the connection of a registered client
C26_Witness ==
    /\ Raised(clientEmitted, "disconnected")
    /\ m_connectionState = "Reconnecting" /\ socketState = "Unconnected"
    /\ ~m_registered /\ ~heartbeatActive
    /\ reconnectTimer.active

(* C27: the client falls back to UDP discovery, instead of connecting, when *)
(* more than 10 consecutive reconnect attempts have failed, and resets the  *)
(* attempt counter to 0; on a discovery response with a non-empty host and  *)
(* a port > 0 it adopts that address and starts connecting to it, the       *)
(* attempt counter being 0.                                                 *)
C27_DiscoveryAfterMaxAttempts ==
    [][/\ Raised(clientEmitted', "LANE_DISCOVERY_REQUEST")
          => /\ Len(tries) > MAX_RECONNECT_ATTEMPTS
             /\ ~Raised(clientEmitted', "connectToHost")
             /\ m_reconnectAttempts' = 0
       /\ \A host \in DiscoveredHosts, port \in DiscoveredPorts :
              (host # "" /\ port > 0 /\ DiscoveryResponse(host, port))
              => /\ m_server' = [host |-> host, port |-> port]
                 /\ Raised(clientEmitted', "connectToHost")
                 /\ m_reconnectAttempts' = 0
      ]_vars

(* C28: in every state of a started client that is not Connected, a        *)
(* reconnect timer, a connection attempt or a discovery retry is pending.   *)
C28_RetryAlwaysPending ==
    m_connectionState \notin {"Disconnected", "Connected"}
    => \/ reconnectTimer.active
       \/ socketState = "Connecting"
       \/ discoveryTimerActive

(* C29: connectToServer never calls connectToHost on the socket while an   *)
(* earlier connection attempt is in progress or the socket is still         *)
(* connected, whichever handler calls it.                                   *)
C29_SingleConnectionAttempt ==
    [][Raised(clientEmitted', "connectToHost")
       => socketState = "Unconnected"]_vars

HandledTypes ==
    {"registration_response", "heartbeat_response", "team_move", "ping"}
        \cup GameCommandTypes

(* C30: a received ping is answered by exactly one pong and forwarded to    *)
(* nobody; a quick_game, league_game or pre_bowl message is forwarded as a  *)
(* game command with its type and data; a message of any type outside the   *)
(* seven handled ones is forwarded unchanged as a generic server message;   *)
(* each raises nothing else and none changes the connection state or the    *)
(* registered flag.                                                         *)
C30_MessageDispatch ==
    [][\A message \in SessionMessages :
          (socketState = "Connected" /\ ReceiveMessage(message))
          => /\ message.type = "ping"
                => /\ clientEmitted' = <<"pong">>
                   /\ forwarded' = <<>>
             /\ message.type \in GameCommandTypes
                => /\ forwarded' =
                          <<[signal |-> "gameCommandReceived",
                             type |-> message.type,
                             data |-> toObject(message.data)]>>
                   /\ clientEmitted' = <<>>
             /\ message.type \notin HandledTypes
                => /\ forwarded' =
                          <<[signal |-> "serverMessageReceived",
                             message |-> message]>>
                   /\ clientEmitted' = <<>>
             /\ message.type \notin
                    {"registration_response", "heartbeat_response",
                     "team_move"}
                => UNCHANGED <<m_connectionState, m_registered>>
      ]_vars

C30_Witness ==
    /\ forwarded = <<[signal |-> "serverMessageReceived",
                      message |-> Message("status_request", "", "now")]>>
    /\ m_registered
    /\ m_connectionState = "Connected"

IsObject(line) == line.json = "object"

(* C31: a received line that is not valid JSON, or is JSON but no object,   *)
(* is dropped: the read has the effect of reading only its object lines, in *)
(* arrival order; a read of nothing but such lines runs no handler,         *)
(* forwards and sends nothing and leaves connection state, registered flag, *)
(* timers and socket unchanged.                                             *)
C31_BadLinesDropped ==
    [][(socketState = "Connected" /\ readLines' \in Reads)
       => LET objects == SelectSeq(readLines', IsObject)
              c == onReadyRead(Client, objects)
          IN  /\ ReadyRead(readLines')
              /\ CommitClient(c)
              /\ objects = <<>>
                 => /\ forwarded' = <<>>
                    /\ clientEmitted' = <<>>
                    /\ UNCHANGED <<m_connectionState, m_registered,
                                   reconnectTimer, heartbeatActive,
                                   socketState, m_reconnectAttempts>>
              /\ (\A k \in 1..Len(objects) :
                     objects[k].message.type = "status_request")
                 => forwarded' =
                       [k \in 1..Len(objects) |->
                           [signal |-> "serverMessageReceived",
                            message |-> objects[k].message]]
      ]_vars

C31_Witness ==
    /\ readLines = <<Line("garbage", NoMessage),
                     Line("object", Message("status_request", "", "later"))>>
    /\ forwarded =
          <<[signal |-> "serverMessageReceived",
             message |-> Message("status_request", "", "later")]>>
    /\ m_registered
    /\ m_connectionState = "Connected"
    /\ socketState = "Connected"

\* the members the claims on stop() speak of
Stopped(c) ==
    [state |-> c.state, registered |-> c.registered,
     heartbeat |-> c.heartbeat, reconnect |-> c.timer.active,
     discovery |-> discoveryTimerActive]

(* C32: stopping is idempotent: a stopBallDetection() that follows a        *)
(* stopBallDetection() changes nothing of the controller, and from every    *)
(* reachable client state stop() called twice leaves the client as stop()   *)
(* called once does: Disconnected, not registered, and the same heartbeat,  *)
(* reconnect and discovery timers inactive.                                 *)
C32_StopIdempotent ==
    [][/\ (machineOp = "stopBallDetection" /\ StopBallDetection)
          => UNCHANGED machineVars
       /\ \A first \in CloseOutcomes(socketState) :
             LET once == stop(Client, first)
             IN  \A second \in CloseOutcomes(once.socket) :
                    LET twice == stop(once, second)
                    IN  /\ once.state = "Disconnected"
                        /\ ~once.registered
                        /\ Stopped(twice) = Stopped(once)
      ]_vars

\* the readings of the attempts made on a channel
Attempted(reads) == SubSeq(reads, 1, Min(Len(reads), MAX_RETRY_ATTEMPTS))

(* C33: a sweep of the pin sensors returns 5 values over {0,1}; each        *)
(* channel is read at most 5 times; a channel is reported down (0) only if  *)
(* a successful read returned 4.0 V or more; a channel whose attempts all   *)
(* failed is reported up (1), and the other channels are still read.        *)
C33_SweepAlwaysAnswers ==
    (machineOp = "checkBallSensor" /\ Raised(machineEmitted, "ballDetected"))
    => /\ Len(currentPinStates) = 5
       /\ \A k \in 1..5 :
             LET reads == Attempted(lastSweep[k])
             IN  /\ currentPinStates[k] \in {0, 1}
                 /\ sensorAttempts(lastSweep[k], 0) <= MAX_RETRY_ATTEMPTS
                 /\ currentPinStates[k] = 0
                    <=> \E j \in 1..Len(reads) :
                           /\ reads[j] >= VOLTAGE_THRESHOLD
                           /\ \A i \in 1..(j - 1) : reads[i] < 0
                 /\ (\A j \in 1..Len(reads) : reads[j] < 0)
                    => currentPinStates[k] = 1

C33_Witness ==
    /\ machineOp = "checkBallSensor"
    /\ Raised(machineEmitted, "ballDetected")
    /\ lastSweep = <<<<39>>, <<-1, -1, -1, -1, -1, 45>>, <<39>>,
                     <<-1, -1, -1, -1, 40>>, <<39>>>>
    /\ currentPinStates = <<1, 1, 1, 0, 1>>

PerfectGame(bowler) ==
    /\ \A f \in 0..8 : Values(bowler.frames[f]) = <<15>>
    /\ Values(bowler.frames[9]) = <<15, 15, 15>>

(* C35: a perfect game ends with totalScore 450, the PERFECT_SCORE          *)
(* constant, and no sequence of balls within one game gives a higher total. *)
C35_PerfectGame450 ==
    \A i \in Bowlers :
       /\ bowlers[i].totalScore <= PERFECT_SCORE
       /\ PerfectGame(bowlers[i]) => bowlers[i].totalScore = PERFECT_SCORE

(* C36: when stop() returns the client is Disconnected and not registered   *)
(* with no heartbeat or reconnect timer running, and a client that is       *)
(* Disconnected starts a connection attempt only when start() is called.    *)
C36_StoppedStaysStopped ==
    [][/\ (\E outcome \in CloseOutcomes(socketState) : Stop(outcome))
          => /\ m_connectionState' = "Disconnected"
             /\ ~m_registered'
             /\ ~heartbeatActive'
             /\ ~reconnectTimer'.active
       /\ (m_connectionState = "Disconnected"
              /\ Raised(clientEmitted', "connectToHost"))
          => Start
      ]_vars

(* C37: gamesPlayed is incremented exactly once per completed game: the     *)
(* processBall or skipPlayer step that makes isGameComplete() true adds 1,  *)
(* and further such steps on the still active, complete game neither        *)
(* change gamesPlayed nor raise gameCompleted or gameEnded nor alter a      *)
(* completed frame.                                                         *)
C37_GameCountedOnce ==
    [][(gameActive /\ bowlers # <<>> /\ (AcceptedBall \/ AcceptedSkip))
       => IF isGameComplete(bowlers)
          THEN /\ gamesPlayed' = gamesPlayed
               /\ ~Raised(Sigs(emitted'), "gameCompleted")
               /\ ~Raised(Sigs(emitted'), "gameEnded")
               /\ \A i \in Bowlers : \A f \in 0..9 :
                      bowlers[i].frames[f].isComplete
                      => bowlers'[i].frames[f] = bowlers[i].frames[f]
          ELSE gamesPlayed' =
                  IF isGameComplete(bowlers') THEN gamesPlayed + 1
                  ELSE gamesPlayed
      ]_vars

(* C38: every change of the connection state is announced through           *)
(* connectionStateChanged: the state last announced, initially              *)
(* Disconnected, is the current connection state.                           *)
C38_StateChangesAnnounced == announcedState = m_connectionState

(* C39: a heartbeat message is sent only while the connection state is      *)
(* Connected and the client is registered.                                  *)
C39_HeartbeatOnlyWhenConnected ==
    [][Raised(clientEmitted', "heartbeat")
       => /\ m_connectionState = "Connected" /\ m_registered
          /\ m_connectionState' = "Connected" /\ m_registered'
      ]_vars

\* the number of frames the bowler has completed
CompletedFrames(bowler) ==
    Cardinality({f \in 0..9 : bowler.frames[f].isComplete})

(* C40: in a game driven by startGame, processBall and skipPlayer the       *)
(* completed-frame counts of any two bowlers differ by at most 1, every     *)
(* bowler before the active index has completed at least as many frames as  *)
(* every bowler at or after it, currentBowlerIndex is within the roster,    *)
(* and only the active bowler's current frame holds balls without being     *)
(* complete.                                                                *)
C40_LockStepRoundRobin ==
    bowlers # <<>> =>
       /\ currentBowlerIndex \in 0..(Len(bowlers) - 1)
       /\ \A i, j \in Bowlers :
              /\ CompletedFrames(bowlers[i]) - CompletedFrames(bowlers[j]) <= 1
              /\ (i <= currentBowlerIndex /\ j > currentBowlerIndex)
                 => CompletedFrames(bowlers[i]) >= CompletedFrames(bowlers[j])
       /\ \A i \in Bowlers : \A f \in 0..9 :
              (bowlers[i].frames[f].balls # <<>>
                  /\ ~bowlers[i].frames[f].isComplete)
              => /\ i = currentBowlerIndex + 1
                 /\ f = bowlers[i].currentFrame

\* the first of three bowlers is a frame ahead, the second has an open
\* frame with a ball in it and the third has not bowled
C40_Witness ==
    /\ Len(bowlers) = 3
    /\ currentBowlerIndex = 1
    /\ CompletedFrames(bowlers[1]) = 2
    /\ CompletedFrames(bowlers[2]) = 1
    /\ CompletedFrames(bowlers[3]) = 1
    /\ bowlers[2].frames[1].balls # <<>>
    /\ ~bowlers[2].frames[1].isComplete

====
